---- MODULE Spec2Model ----
(***************************************************************************)
(* Model of iam-scoped-permissions: the denial parser and log-group        *)
(* analysis of CloudWatchLogsService and the aggregation of                *)
(* PermissionAnalyzerService.                                              *)
(*                                                                         *)
(* A JavaScript string is a sequence of one-character strings, so that     *)
(* toLowerCase, startsWith, includes and template-string concatenation are *)
(* computed character by character as the code computes them.  A value     *)
(* read out of a JSON document is a record [t, s, c]: t is its JavaScript  *)
(* type ("str", "num", "obj" or "arr"), s its characters (for a number,    *)
(* the characters String(v) yields) and c its members.  An optional value  *)
(* is <<>> for undefined and <<v>> otherwise.                              *)
(*                                                                         *)
(* Where the code stores a value in a local and reads it several times     *)
(* (const match = message.match(pattern)), the parser binds the value with *)
(* x \in {e}, writing CHOOSE r \in {body : x \in {e}} : TRUE for the body  *)
(* computed from that one value of e.                                      *)
(***************************************************************************)
EXTENDS Integers, Sequences, FiniteSets, TLC

VARIABLES
  logAnalysisResults,  \* analyzeLogs: its argument, LogAnalysisResult[]
  permissionMap,       \* analyzeLogs: the Map, as its entries in insertion order
  ri,                  \* analyzeLogs: index of the result the outer loop is at
  di,                  \* analyzeLogs: index of the denial the inner loop is at
  pc,                  \* position of the run
  suggestions,         \* analyzeLogs: the returned SuggestedPermission[]
  clock,               \* the wall clock read by new Date()
  args,                \* argument record of a pure function under check
  ret,                 \* its result
  logGroupNames,       \* analyzeLogGroups: its argument logGroupNames
  rolePatterns,        \* analyzeLogGroups: its argument rolePatterns (<<>> when absent)
  cloudwatch,          \* what CloudWatch Logs answers for each log group name
  validLogGroups,      \* analyzeLogGroups: validLogGroups
  nonExistentLogGroups, \* analyzeLogGroups: nonExistentLogGroups
  results,             \* analyzeLogGroups: results
  vi,                  \* analyzeLogGroups: index in validLogGroups of the second loop
  errorLog,            \* the errors reported through console.error, in order
  statementMap,        \* generateIAMPolicy: the Map, as its entries in insertion order
  pi,                  \* generateIAMPolicy: index of the permission the loop is at
  allLogGroups,        \* analyzeStack: the Set allLogGroups, in insertion order
  cdkStatements        \* generateCDKCode: the policy statements of the code, in the order written

analyzerVars == <<logAnalysisResults, permissionMap, ri, di, suggestions, clock>>

logsVars == <<logGroupNames, rolePatterns, cloudwatch, validLogGroups, nonExistentLogGroups, results, vi, errorLog>>

policyVars == <<statementMap, pi, cdkStatements>>

stackVars == <<allLogGroups>>

vars == <<logAnalysisResults, permissionMap, ri, di, pc, suggestions, clock, args, ret,
          logGroupNames, rolePatterns, cloudwatch, validLogGroups, nonExistentLogGroups, results, vi, errorLog,
          statementMap, pi, allLogGroups, cdkStatements>>

\* analyzeLogGroups is not running
noLogGroups ==
  /\ logGroupNames = <<>>
  /\ rolePatterns = <<>>
  /\ cloudwatch = <<>>
  /\ validLogGroups = <<>>
  /\ nonExistentLogGroups = <<>>
  /\ results = <<>>
  /\ vi = 1
  /\ errorLog = <<>>

\* generateIAMPolicy is not running
noPolicy ==
  /\ statementMap = <<>>
  /\ pi = 1
  /\ cdkStatements = <<>>

\* analyzeStack is not running
noStack == allLogGroups = <<>>

---------------------------------------------------------------------------
(* Bounds of the model *)

MaxSources == 2
MaxTotalDenials == 3
MaxClockAdvance == 1
MaxOrderSources == 2
MaxOrderDenials == 2
MaxDenialCount == 11

---------------------------------------------------------------------------
(* JavaScript strings *)

UpperChars == <<"A","B","C","D","E","F","G","H","I","J","K","L","M","N","O","P","Q","R","S","T","U","V","W","X","Y","Z">>
LowerChars == <<"a","b","c","d","e","f","g","h","i","j","k","l","m","n","o","p","q","r","s","t","u","v","w","x","y","z">>

Digits == <<"0","1","2","3","4","5","6","7","8","9">>

toLowerChar(c) ==
  IF \E i \in 1..26 : UpperChars[i] = c
  THEN LowerChars[CHOOSE i \in 1..26 : UpperChars[i] = c]
  ELSE c

toLowerCase(s) == [i \in 1..Len(s) |-> toLowerChar(s[i])]

startsWith(s, p) == Len(p) <= Len(s) /\ SubSeq(s, 1, Len(p)) = p

endsWith(s, p) == Len(p) <= Len(s) /\ SubSeq(s, Len(s) - Len(p) + 1, Len(s)) = p

includes(s, sub) == \E i \in 1..(Len(s) - Len(sub) + 1) : SubSeq(s, i, i + Len(sub) - 1) = sub

RECURSIVE join(_, _)
join(parts, sep) ==
  IF parts = <<>> THEN <<>>
  ELSE IF Len(parts) = 1 THEN parts[1]
  ELSE join(SubSeq(parts, 1, Len(parts) - 1), sep) \o sep \o parts[Len(parts)]

\* [...new Set(xs)]: the distinct elements in order of first occurrence
RECURSIVE uniqueOf(_)
uniqueOf(xs) ==
  IF xs = <<>> THEN <<>>
  ELSE LET front == uniqueOf(SubSeq(xs, 1, Len(xs) - 1))
           last == xs[Len(xs)]
       IN IF \E i \in 1..Len(front) : front[i] = last THEN front ELSE Append(front, last)

\* JSON values: c holds the members of an object or array as [k, v] entries
Str(s) == [t |-> "str", s |-> s, c |-> <<>>]
Num(s) == [t |-> "num", s |-> s, c |-> <<>>]
Obj(members) == [t |-> "obj", s |-> <<>>, c |-> members]
Arr(members) == [t |-> "arr", s |-> <<>>, c |-> members]

---------------------------------------------------------------------------
(* String literals of permission-analyzer *)

analyzerText ==
  [ ArnAws |-> <<"a","r","n",":","a","w","s",":">>,
    Slash |-> <<"/">>,
    ArnWildcardPrefix |-> <<"a","r","n",":","a","w","s",":","*",":","*",":","*",":">>,
    KeySeparator |-> <<"|","|","|">>,
    AccessDenied |-> <<"A","c","c","e","s","s","D","e","n","i","e","d">>,
    UnauthorizedOperation |-> <<"U","n","a","u","t","h","o","r","i","z","e","d","O","p","e","r","a","t","i","o","n">>,
    LambdaInvokeFunction |-> <<"l","a","m","b","d","a",":","i","n","v","o","k","e","f","u","n","c","t","i","o","n">>,
    Dynamodb |-> <<"d","y","n","a","m","o","d","b",":">>,
    S3GetObject |-> <<"s","3",":","g","e","t","o","b","j","e","c","t">>,
    Read |-> <<"r","e","a","d">>,
    Get |-> <<"g","e","t">>,
    Delete |-> <<"d","e","l","e","t","e">>,
    Put |-> <<"p","u","t">>,
    Create |-> <<"c","r","e","a","t","e">>,
    Api |-> <<"a","p","i">>,
    Public |-> <<"p","u","b","l","i","c">>,
    Iam |-> <<"i","a","m",":">>,
    Admin |-> <<"a","d","m","i","n">>,
    PermissionDeniedIn |-> <<"P","e","r","m","i","s","s","i","o","n"," ","d","e","n","i","e","d"," ","i","n"," ">>,
    AdditionalDenialIn |-> <<"A","d","d","i","t","i","o","n","a","l"," ","d","e","n","i","a","l"," ","i","n"," ">>,
    ColonSpace |-> <<":"," ">>,
    SemicolonSpace |-> <<";"," ">>,
    CommaSpace |-> <<","," ">>,
    AssociatedWith |-> <<"."," ","A","s","s","o","c","i","a","t","e","d"," ","w","i","t","h"," ","C","l","o","u","d","F","o","r","m","a","t","i","o","n"," ","r","e","s","o","u","r","c","e","s",":"," ">>,
    Unknown |-> <<"U","n","k","n","o","w","n">> ]

---------------------------------------------------------------------------
(* PermissionAnalyzerService *)

normalizeAction(action) == toLowerCase(action)

\* mutant: the wildcard prefix put before every resource that holds a slash
normalizeResource_everySlash(resource) ==
  IF includes(resource, analyzerText.Slash) THEN analyzerText.ArnWildcardPrefix \o resource
  ELSE resource

normalizeResource(resource) ==
  IF startsWith(resource, analyzerText.ArnAws) THEN resource
  ELSE IF includes(resource, analyzerText.Slash) THEN analyzerText.ArnWildcardPrefix \o resource
  ELSE resource

HighDenials == 10
MediumDenials == 3

\* mutant: the thresholds compared with >= instead of >
calculateSeverity_inclusiveThresholds(action, errorCode, totalDenials) ==
  LET lowerAction == toLowerCase(action)
  IN IF includes(errorCode, analyzerText.AccessDenied)
        /\ (includes(lowerAction, analyzerText.LambdaInvokeFunction)
            \/ includes(lowerAction, analyzerText.Dynamodb)
            \/ includes(lowerAction, analyzerText.S3GetObject))
     THEN "Critical"
     ELSE IF totalDenials >= HighDenials \/ includes(errorCode, analyzerText.UnauthorizedOperation)
     THEN "High"
     ELSE IF totalDenials >= MediumDenials \/ includes(lowerAction, analyzerText.Read) \/ includes(lowerAction, analyzerText.Get)
     THEN "Medium"
     ELSE "Low"

calculateSeverity(action, errorCode, totalDenials) ==
  LET lowerAction == toLowerCase(action)
  IN IF includes(errorCode, analyzerText.AccessDenied)
        /\ (includes(lowerAction, analyzerText.LambdaInvokeFunction)
            \/ includes(lowerAction, analyzerText.Dynamodb)
            \/ includes(lowerAction, analyzerText.S3GetObject))
     THEN "Critical"
     ELSE IF totalDenials > HighDenials \/ includes(errorCode, analyzerText.UnauthorizedOperation)
     THEN "High"
     ELSE IF totalDenials > MediumDenials \/ includes(lowerAction, analyzerText.Read) \/ includes(lowerAction, analyzerText.Get)
     THEN "Medium"
     ELSE "Low"

\* new Date().toISOString() at clock tick now: a distinct text per tick
toISOString(now) == <<"T", Digits[(now % 10) + 1]>>

\* mutant: the MFA entry only for actions that hold "delete"
generateConditions_mfaOnlyOnDelete(action, resource, now) ==
  LET date == IF includes(action, analyzerText.Delete) \/ includes(action, analyzerText.Put) \/ includes(action, analyzerText.Create)
              THEN <<[k |-> "DateGreaterThan", v |-> toISOString(now)]>> ELSE <<>>
      ip == IF includes(resource, analyzerText.Api) \/ includes(resource, analyzerText.Public)
            THEN <<[k |-> "IpAddress", v |-> <<"10.0.0.0/8", "172.16.0.0/12", "192.168.0.0/16">>]>> ELSE <<>>
      mfa == IF includes(action, analyzerText.Delete)
             THEN <<[k |-> "Bool", v |-> <<"true">>]>> ELSE <<>>
  IN date \o ip \o mfa

\* the condition map, as its entries in insertion order; <<>> stands for undefined
generateConditions(action, resource, now) ==
  LET date == IF includes(action, analyzerText.Delete) \/ includes(action, analyzerText.Put) \/ includes(action, analyzerText.Create)
              THEN <<[k |-> "DateGreaterThan", v |-> toISOString(now)]>> ELSE <<>>
      ip == IF includes(resource, analyzerText.Api) \/ includes(resource, analyzerText.Public)
            THEN <<[k |-> "IpAddress", v |-> <<"10.0.0.0/8", "172.16.0.0/12", "192.168.0.0/16">>]>> ELSE <<>>
      mfa == IF includes(action, analyzerText.Delete) \/ includes(action, analyzerText.Iam) \/ includes(action, analyzerText.Admin)
             THEN <<[k |-> "Bool", v |-> <<"true">>]>> ELSE <<>>
  IN date \o ip \o mfa

\* mutant: the reasons joined without the Set that drops repeats
consolidateReasoning_keepRepeats(reasons, associatedResources) ==
  LET consolidated == join(reasons, analyzerText.SemicolonSpace)
  IN IF Len(associatedResources) > 0
     THEN consolidated \o analyzerText.AssociatedWith \o join(uniqueOf(associatedResources), analyzerText.CommaSpace)
     ELSE consolidated

consolidateReasoning(reasons, associatedResources) ==
  LET uniqueReasons == uniqueOf(reasons)
      consolidated == join(uniqueReasons, analyzerText.SemicolonSpace)
  IN IF Len(associatedResources) > 0
     THEN consolidated \o analyzerText.AssociatedWith \o join(uniqueOf(associatedResources), analyzerText.CommaSpace)
     ELSE consolidated

mapHas(map, key) == \E i \in 1..Len(map) : map[i].key = key

mapGet(map, key) == map[CHOOSE i \in 1..Len(map) : map[i].key = key]

permissionKey(action, resource) == action \o analyzerText.KeySeparator \o resource

\* mutant: the severity computed again at every merge
mergeEntry_recomputeSeverity(existing, result, denial) ==
  [existing EXCEPT
     !.frequency = @ + 1,
     !.severity = calculateSeverity(existing.action, denial.errorCode.s, Len(result.permissionDenials)),
     !.reasoning = Append(@, analyzerText.AdditionalDenialIn \o result.logGroupName
                               \o analyzerText.ColonSpace \o denial.errorCode.s),
     !.associatedResources =
         IF result.associatedResource # <<>>
         THEN Append(@, result.associatedResource[1].logicalId) ELSE @]

\* mutant: the frequency counted inside the associatedResource branch
mergeEntry_countInsideBranch(existing, result, denial) ==
  [existing EXCEPT
     !.frequency = IF result.associatedResource # <<>> THEN @ + 1 ELSE @,
     !.reasoning = Append(@, analyzerText.AdditionalDenialIn \o result.logGroupName
                               \o analyzerText.ColonSpace \o denial.errorCode.s),
     !.associatedResources =
         IF result.associatedResource # <<>>
         THEN Append(@, result.associatedResource[1].logicalId) ELSE @]

\* the update of an entry already in the Map
mergeEntry(existing, result, denial) ==
  [existing EXCEPT
     !.frequency = @ + 1,
     !.reasoning = Append(@, analyzerText.AdditionalDenialIn \o result.logGroupName
                               \o analyzerText.ColonSpace \o denial.errorCode.s),
     !.associatedResources =
         IF result.associatedResource # <<>>
         THEN Append(@, result.associatedResource[1].logicalId) ELSE @]

\* the entry set for a key met for the first time
newEntry(key, action, resource, result, denial) ==
  [key |-> key,
   action |-> action,
   frequency |-> 1,
   resource |-> resource,
   reasoning |-> <<analyzerText.PermissionDeniedIn \o result.logGroupName
                     \o analyzerText.ColonSpace \o denial.errorCode.s>>,
   severity |-> calculateSeverity(action, denial.errorCode.s, Len(result.permissionDenials)),
   associatedResources |->
      IF result.associatedResource # <<>>
      THEN <<result.associatedResource[1].logicalId>> ELSE <<>>]

\* One iteration of the inner loop of analyzeLogs on the Map `map`:
\* [threw, map].  toLowerCase, startsWith and includes are methods of strings
\* only: on a value of another type the call raises a TypeError.
analyzeDenial(map, result, denial) ==
  IF denial.action.t # "str" \/ denial.resource.t # "str" THEN [threw |-> TRUE, map |-> map]
  ELSE
    LET action == normalizeAction(denial.action.s)
        resource == normalizeResource(denial.resource.s)
        key == permissionKey(action, resource)
    IN IF mapHas(map, key)
       THEN [threw |-> FALSE,
             map |-> [i \in 1..Len(map) |->
                        IF map[i].key = key THEN mergeEntry(map[i], result, denial) ELSE map[i]]]
       ELSE IF denial.errorCode.t # "str" THEN [threw |-> TRUE, map |-> map]
       ELSE [threw |-> FALSE,
             map |-> Append(map, newEntry(key, action, resource, result, denial))]

\* the SuggestedPermission pushed for one Map entry; `now` is the clock at the
\* second generateConditions call, whose result is the one stored
toSuggestion(data, now) ==
  LET condition == generateConditions(data.action, data.resource, now)
  IN [action |-> IF data.action # <<>> THEN data.action ELSE analyzerText.Unknown,
      resource |-> data.resource,
      effect |-> "Allow",
      hasCondition |-> condition # <<>>,
      condition |-> condition,
      reasoning |-> consolidateReasoning(data.reasoning, data.associatedResources),
      frequency |-> data.frequency,
      severity |-> data.severity]

severityOrder(severity) ==
  CASE severity = "Critical" -> 4
    [] severity = "High" -> 3
    [] severity = "Medium" -> 2
    [] severity = "Low" -> 1

\* mutant: the comparator without its frequency tie-break
compareSuggestions_severityOnly(a, b) == severityOrder(b.severity) - severityOrder(a.severity)

\* the comparator handed to Array.prototype.sort
compareSuggestions(a, b) ==
  LET severityDiff == severityOrder(b.severity) - severityOrder(a.severity)
  IN IF severityDiff # 0 THEN severityDiff ELSE b.frequency - a.frequency

\* Array.prototype.sort is stable: x, met after every element of `sorted`,
\* goes in front of the first element the comparator puts after it
insertSorted(sorted, x) ==
  LET after == {i \in 1..Len(sorted) : compareSuggestions(sorted[i], x) > 0}
      at == IF after = {} THEN Len(sorted) + 1 ELSE CHOOSE i \in after : \A j \in after : i <= j
  IN SubSeq(sorted, 1, at - 1) \o <<x>> \o SubSeq(sorted, at, Len(sorted))

RECURSIVE sortSuggestions(_)
sortSuggestions(list) ==
  IF list = <<>> THEN <<>>
  ELSE insertSorted(sortSuggestions(SubSeq(list, 1, Len(list) - 1)), list[Len(list)])

\* the Map after the loops of analyzeLogs went from denial d of result r to the end
RECURSIVE aggregateFrom(_, _, _, _)
aggregateFrom(analysisResults, map, r, d) ==
  IF r > Len(analysisResults) THEN map
  ELSE IF d > Len(analysisResults[r].permissionDenials) THEN aggregateFrom(analysisResults, map, r + 1, 1)
  ELSE aggregateFrom(analysisResults, analyzeDenial(map, analysisResults[r], analysisResults[r].permissionDenials[d]).map, r, d + 1)

\* analyzeLogs(logAnalysisResults) with the clock standing at `now`
analyzeLogs(analysisResults, now) ==
  LET map == aggregateFrom(analysisResults, <<>>, 1, 1)
  IN sortSuggestions([i \in 1..Len(map) |-> toSuggestion(map[i], now)])

---------------------------------------------------------------------------
(* analyzeLogs as a run: one step per denial, then the conversion and sort *)

\* the first result at or after r that holds a denial, or Len + 1
RECURSIVE skipEmpty(_, _)
skipEmpty(analysisResults, r) ==
  IF r > Len(analysisResults) THEN Len(analysisResults) + 1
  ELSE IF Len(analysisResults[r].permissionDenials) > 0 THEN r
  ELSE skipEmpty(analysisResults, r + 1)

ProcessDenial ==
  /\ pc = "aggregate"
  /\ ri <= Len(logAnalysisResults)
  /\ LET result == logAnalysisResults[ri]
         step == analyzeDenial(permissionMap, result, result.permissionDenials[di])
     IN /\ permissionMap' = step.map
        /\ pc' = IF step.threw THEN "threw" ELSE "aggregate"
        /\ IF di < Len(result.permissionDenials)
           THEN ri' = ri /\ di' = di + 1
           ELSE ri' = skipEmpty(logAnalysisResults, ri + 1) /\ di' = 1
  /\ UNCHANGED <<logAnalysisResults, suggestions, clock, args, ret, logsVars, policyVars, stackVars>>

nonDecreasing(ts) == \A i \in 1..(Len(ts) - 1) : ts[i] <= ts[i + 1]

ConvertAndSort ==
  /\ pc = "aggregate"
  /\ ri > Len(logAnalysisResults)
  /\ \E ts \in [1..Len(permissionMap) -> clock..(clock + MaxClockAdvance)] :
       /\ nonDecreasing(ts)
       /\ suggestions' = sortSuggestions([i \in 1..Len(permissionMap) |-> toSuggestion(permissionMap[i], ts[i])])
       /\ clock' = IF Len(permissionMap) = 0 THEN clock ELSE ts[Len(permissionMap)]
  /\ pc' = "done"
  /\ UNCHANGED <<logAnalysisResults, permissionMap, ri, di, args, ret, logsVars, policyVars, stackVars>>

---------------------------------------------------------------------------
(* Inputs of analyzeLogs *)

inputText ==
  [ LogGroupPrefix |-> <<"/","a","w","s","/","l","a","m","b","d","a","/","f">>,
    LogicalIdPrefix |-> <<"F","n">>,
    S3GetObjectMixed |-> <<"s","3",":","G","e","t","O","b","j","e","c","t">>,
    BucketKey |-> <<"b","/","k">>,
    DynamodbPutItemBar |-> <<"d","y","n","a","m","o","d","b",":","P","u","t","I","t","e","m","|">>,
    DynamodbPutItem |-> <<"d","y","n","a","m","o","d","b",":","P","u","t","I","t","e","m">>,
    Table |-> <<"t">>,
    BarTable |-> <<"|","t">>,
    Forbidden |-> <<"F","o","r","b","i","d","d","e","n">>,
    Role |-> <<"r","o","l","e","/","r">> ]

logGroupNameOf(i) == inputText.LogGroupPrefix \o <<Digits[i + 1]>>

\* the stack's resources: the function behind the first log group
stackResources == <<[logicalId |-> inputText.LogicalIdPrefix \o <<"1">>, logGroups |-> {logGroupNameOf(1)}]>>

findAssociatedResource(logGroupName, resources) ==
  LET found == {i \in 1..Len(resources) : logGroupName \in resources[i].logGroups}
  IN IF found = {} THEN <<>> ELSE <<resources[CHOOSE i \in found : \A j \in found : i <= j]>>

denialOf(action, resource, errorCode) ==
  [action |-> action, resource |-> resource, principal |-> Str(inputText.Role), errorCode |-> errorCode]

\* two spellings of one key with different error codes, and two denials whose
\* action and resource differ but concatenate to the same text around "|||"
DenialChoices ==
  { denialOf(Str(inputText.S3GetObjectMixed), Str(inputText.BucketKey), Str(analyzerText.AccessDenied)),
    denialOf(Str(analyzerText.S3GetObject), Str(analyzerText.ArnWildcardPrefix \o inputText.BucketKey), Str(analyzerText.UnauthorizedOperation)),
    denialOf(Str(inputText.DynamodbPutItemBar), Str(inputText.Table), Str(inputText.Forbidden)),
    denialOf(Str(inputText.DynamodbPutItem), Str(inputText.BarTable), Str(analyzerText.UnauthorizedOperation)) }

RECURSIVE seqsOfLen(_, _)
seqsOfLen(S, n) ==
  IF n = 0 THEN {<<>>}
  ELSE {Append(s, x) : s \in seqsOfLen(S, n - 1), x \in S}

\* the denial lists of n sources holding at most `budget` denials together
RECURSIVE denialLists(_, _)
denialLists(n, budget) ==
  IF n = 0 THEN {<<>>}
  ELSE UNION {{<<first>> \o rest : first \in seqsOfLen(DenialChoices, k), rest \in denialLists(n - 1, budget - k)} :
              k \in 0..budget}

resultsOf(lists) ==
  [i \in 1..Len(lists) |->
     [logGroupName |-> logGroupNameOf(i),
      associatedResource |-> findAssociatedResource(logGroupNameOf(i), stackResources),
      permissionDenials |-> lists[i]]]

\* the inputs of at most maxSources sources holding at most maxDenials denials together
InputResults(maxSources, maxDenials) ==
  UNION {{resultsOf(l) : l \in denialLists(n, maxDenials)} : n \in 0..maxSources}

OrderInputs(maxSources, maxDenials) == InputResults(maxSources, maxDenials)

Init ==
  /\ logAnalysisResults \in InputResults(MaxSources, MaxTotalDenials)
  /\ permissionMap = <<>>
  /\ ri = skipEmpty(logAnalysisResults, 1)
  /\ di = 1
  /\ pc = "aggregate"
  /\ suggestions = <<>>
  /\ clock = 0
  /\ args = "none"
  /\ ret = "none"
  /\ noLogGroups
  /\ noPolicy
  /\ noStack

Next == ProcessDenial \/ ConvertAndSort

Spec == Init /\ [][Next]_vars

---------------------------------------------------------------------------
(* Claims about analyzeLogs *)

\* the places <<r, d>> of the denials of an input
positions(analysisResults) ==
  UNION {{<<r, d>> : d \in 1..Len(analysisResults[r].permissionDenials)} : r \in 1..Len(analysisResults)}

denialAt(analysisResults, p) == analysisResults[p[1]].permissionDenials[p[2]]

\* the key of the claims: the pair (lowercased action, normalized resource)
pairKeyAt(analysisResults, p) ==
  <<normalizeAction(denialAt(analysisResults, p).action.s), normalizeResource(denialAt(analysisResults, p).resource.s)>>

\* the denials the loops have gone through
processed(p) == p[1] < ri \/ (p[1] = ri /\ p[2] < di)

\* C1: the output holds exactly one SuggestedPermission per distinct pair
\* (lowercased action, normalized resource) of the input, and its frequency is
\* the number of input denials with that pair.
C1_OnePermissionPerKey ==
  pc = "done" =>
    LET ps == positions(logAnalysisResults)
        keys == {pairKeyAt(logAnalysisResults, p) : p \in ps}
    IN /\ Len(suggestions) = Cardinality(keys)
       /\ \A k \in keys :
            \E i \in 1..Len(suggestions) :
              /\ suggestions[i].action = k[1]
              /\ suggestions[i].resource = k[2]
              /\ suggestions[i].frequency = Cardinality({p \in ps : pairKeyAt(logAnalysisResults, p) = k})

\* C2: a step never removes a candidate, and leaves the key, action, resource
\* and severity of every candidate already in the Map as they were: a merge
\* changes only frequency, reasoning and associated resources.
C2_SeverityFixedAtFirstDenial ==
  [][\A i \in 1..Len(permissionMap) :
       /\ i <= Len(permissionMap')
       /\ permissionMap'[i].key = permissionMap[i].key
       /\ permissionMap'[i].action = permissionMap[i].action
       /\ permissionMap'[i].resource = permissionMap[i].resource
       /\ permissionMap'[i].severity = permissionMap[i].severity
       /\ permissionMap'[i].frequency >= permissionMap[i].frequency]_vars

\* C2 witness: a denial has been merged into a candidate whose severity is not
\* the one that denial's own error code and source size give.
C2_MergedDenialOfOtherSeverity ==
  \E i \in 1..Len(permissionMap) : \E p \in positions(logAnalysisResults) :
    LET denial == denialAt(logAnalysisResults, p)
    IN /\ processed(p)
       /\ permissionMap[i].frequency >= 2
       /\ permissionKey(pairKeyAt(logAnalysisResults, p)[1], pairKeyAt(logAnalysisResults, p)[2]) = permissionMap[i].key
       /\ calculateSeverity(permissionMap[i].action, denial.errorCode.s,
                            Len(logAnalysisResults[p[1]].permissionDenials)) # permissionMap[i].severity

\* the number of entries of an exported reasoning: its "; " separators plus one
reasoningEntries(text) ==
  Cardinality({i \in 1..(Len(text) - 1) : SubSeq(text, i, i + 1) = analyzerText.SemicolonSpace}) + 1

\* C4 as claimed: the exported reasoning of a candidate that merged N denials
\* holds N entries, exact duplicates included.
C4_ReasoningKeepsDuplicates ==
  pc = "done" =>
    \A i \in 1..Len(suggestions) :
      reasoningEntries(suggestions[i].reasoning) = suggestions[i].frequency

\* C4 amended: the Map's reasoning list holds one entry per merged denial, and
\* the exported reasoning holds each distinct entry of that list once.
C4_ReasoningDistinctEntries ==
  /\ \A i \in 1..Len(permissionMap) :
       Len(permissionMap[i].reasoning) = permissionMap[i].frequency
  /\ pc = "done" =>
       \A i \in 1..Len(suggestions) :
         LET data == mapGet(permissionMap, permissionKey(suggestions[i].action, suggestions[i].resource))
         IN /\ reasoningEntries(suggestions[i].reasoning)
                 = Cardinality({data.reasoning[j] : j \in 1..Len(data.reasoning)})
            /\ reasoningEntries(suggestions[i].reasoning) <= suggestions[i].frequency

\* C4 witness: three denials merged, two reasoning entries exported.
C4_DuplicateCollapsed ==
  /\ pc = "done"
  /\ \E i \in 1..Len(suggestions) :
       suggestions[i].frequency = 3 /\ reasoningEntries(suggestions[i].reasoning) = 2

\* C6: the returned list is ordered by severity rank descending and, among
\* equal ranks, by frequency descending.
C6_SortedBySeverityThenFrequency ==
  pc = "done" =>
    \A i \in 1..Len(suggestions) : \A j \in 1..Len(suggestions) :
      i < j =>
        /\ severityOrder(suggestions[i].severity) >= severityOrder(suggestions[j].severity)
        /\ severityOrder(suggestions[i].severity) = severityOrder(suggestions[j].severity)
             => suggestions[i].frequency >= suggestions[j].frequency

\* C6 witness: two candidates of equal severity whose Map order the sort had to
\* reverse because the later one is the more frequent.
C6_SortReorderedTie ==
  /\ pc = "done"
  /\ Len(suggestions) = 2
  /\ suggestions[1].severity = suggestions[2].severity
  /\ suggestions[1].frequency > suggestions[2].frequency
  /\ permissionMap[1].key = permissionKey(suggestions[2].action, suggestions[2].resource)

---------------------------------------------------------------------------
(* Order of arrival: analyzeLogs on every reordering of its input *)

InitOrder ==
  /\ logAnalysisResults \in OrderInputs(MaxOrderSources, MaxOrderDenials)
  /\ permissionMap = <<>>
  /\ ri = skipEmpty(logAnalysisResults, 1)
  /\ di = 1
  /\ pc = "aggregate"
  /\ suggestions = <<>>
  /\ clock = 0
  /\ args = "none"
  /\ ret = "none"
  /\ noLogGroups
  /\ noPolicy
  /\ noStack

SpecOrder == InitOrder /\ [][Next]_vars

permutationsOf(n) == {f \in [1..n -> 1..n] : \A i \in 1..n : \A j \in 1..n : f[i] = f[j] => i = j}

permuted(s, f) == [i \in 1..Len(s) |-> s[f[i]]]

\* the inputs got by reordering the denials inside each source
RECURSIVE reorderedInside(_)
reorderedInside(analysisResults) ==
  IF analysisResults = <<>> THEN {<<>>}
  ELSE LET last == analysisResults[Len(analysisResults)]
       IN {Append(front, [last EXCEPT !.permissionDenials = permuted(last.permissionDenials, f)]) :
             front \in reorderedInside(SubSeq(analysisResults, 1, Len(analysisResults) - 1)),
             f \in permutationsOf(Len(last.permissionDenials))}

\* every permutation of the sources and of the denials inside each source
permutedInputs(analysisResults) ==
  {permuted(inside, f) : inside \in reorderedInside(analysisResults), f \in permutationsOf(Len(analysisResults))}

severityTuples(list) ==
  {<<list[i].action, list[i].resource, list[i].frequency, list[i].severity>> : i \in 1..Len(list)}

keyFrequencies(list) ==
  {<<permissionKey(list[i].action, list[i].resource), list[i].frequency>> : i \in 1..Len(list)}

\* C3 as claimed: the set of (action, resource, frequency, severity) tuples
\* returned is the same for every permutation of the sources and of the
\* denials inside each source.
C3_OrderIrrelevant ==
  pc = "done" =>
    \A p \in permutedInputs(logAnalysisResults) :
      severityTuples(analyzeLogs(p, clock)) = severityTuples(suggestions)

\* C3 amended: every permutation of the input returns the same set of
\* (aggregation key, frequency) pairs, the aggregation key being the text
\* action|||resource of the returned entry.
C3_OrderIrrelevantToFrequency ==
  pc = "done" =>
    \A p \in permutedInputs(logAnalysisResults) :
      keyFrequencies(analyzeLogs(p, clock)) = keyFrequencies(suggestions)

\* C3 witness: a run whose input has a permutation that returns another
\* severity for a candidate merged from two denials.
C3_PermutationChangesSeverity ==
  /\ pc = "done"
  /\ \E i \in 1..Len(suggestions) : suggestions[i].frequency >= 2
  /\ \E p \in permutedInputs(logAnalysisResults) :
       severityTuples(analyzeLogs(p, clock)) # severityTuples(suggestions)

---------------------------------------------------------------------------
(* calculateSeverity as a function of its three arguments *)

severityText ==
  [ AccessDeniedException |-> <<"A","c","c","e","s","s","D","e","n","i","e","d","E","x","c","e","p","t","i","o","n">>,
    DynamodbQuery |-> <<"d","y","n","a","m","o","d","b",":","q","u","e","r","y">>,
    S3GetObjectAcl |-> <<"s","3",":","g","e","t","o","b","j","e","c","t","a","c","l">>,
    KmsDecrypt |-> <<"k","m","s",":","d","e","c","r","y","p","t">>,
    SsmGetParameter |-> <<"s","s","m",":","g","e","t","p","a","r","a","m","e","t","e","r">>,
    IotThreads |-> <<"i","o","t",":","t","h","r","e","a","d","s">> ]

SeverityActions ==
  {analyzerText.LambdaInvokeFunction, severityText.DynamodbQuery, analyzerText.S3GetObject, severityText.S3GetObjectAcl,
   severityText.KmsDecrypt, severityText.SsmGetParameter, severityText.IotThreads}

SeverityErrorCodes ==
  {analyzerText.AccessDenied, severityText.AccessDeniedException, analyzerText.UnauthorizedOperation, inputText.Forbidden, analyzerText.Unknown}

InitSeverity ==
  /\ args \in [action : SeverityActions, errorCode : SeverityErrorCodes, totalDenials : 0..MaxDenialCount]
  /\ ret = "none"
  /\ pc = "call"
  /\ logAnalysisResults = <<>>
  /\ permissionMap = <<>>
  /\ ri = 1
  /\ di = 1
  /\ suggestions = <<>>
  /\ clock = 0
  /\ noLogGroups
  /\ noPolicy
  /\ noStack

CalculateSeverity ==
  /\ pc = "call"
  /\ ret' = calculateSeverity(args.action, args.errorCode, args.totalDenials)
  /\ pc' = "returned"
  /\ UNCHANGED <<logAnalysisResults, permissionMap, ri, di, suggestions, clock, args, logsVars, policyVars, stackVars>>

SpecSeverity == InitSeverity /\ [][CalculateSeverity]_vars

\* C5 as claimed: Critical if the error code is AccessDenied and the action is
\* lambda:invokefunction, a dynamodb: action or s3:getobject; else High if
\* n > 10 or the error code is UnauthorizedOperation; else Medium if n > 3 or
\* the action contains read or get; else Low.
C5_SeverityByEquality ==
  pc = "returned" =>
    LET critical == /\ args.errorCode = analyzerText.AccessDenied
                    /\ \/ args.action = analyzerText.LambdaInvokeFunction
                       \/ startsWith(args.action, analyzerText.Dynamodb)
                       \/ args.action = analyzerText.S3GetObject
        high == args.totalDenials > 10 \/ args.errorCode = analyzerText.UnauthorizedOperation
        medium == args.totalDenials > 3 \/ includes(args.action, analyzerText.Read) \/ includes(args.action, analyzerText.Get)
    IN ret = IF critical THEN "Critical"
             ELSE IF high THEN "High"
             ELSE IF medium THEN "Medium"
             ELSE "Low"

\* C5 amended: the same rule with every test on the error code and on the
\* action a test of containment: Critical iff the error code contains
\* AccessDenied and the action contains lambda:invokefunction, dynamodb: or
\* s3:getobject; High iff not Critical and n > 10 or the error code contains
\* UnauthorizedOperation; Medium iff neither and n > 3 or the action contains
\* read or get; Low iff none of these.
C5_SeverityByContainment ==
  pc = "returned" =>
    LET critical == /\ includes(args.errorCode, analyzerText.AccessDenied)
                    /\ \E a \in {analyzerText.LambdaInvokeFunction, analyzerText.Dynamodb, analyzerText.S3GetObject} : includes(args.action, a)
        high == args.totalDenials > 10 \/ includes(args.errorCode, analyzerText.UnauthorizedOperation)
        medium == args.totalDenials > 3 \/ \E w \in {analyzerText.Read, analyzerText.Get} : includes(args.action, w)
    IN /\ ret = "Critical" <=> critical
       /\ ret = "High" <=> ~critical /\ high
       /\ ret = "Medium" <=> ~critical /\ ~high /\ medium
       /\ ret = "Low" <=> ~critical /\ ~high /\ ~medium

\* C5 witness: an error code that contains AccessDenied without being it,
\* rated Critical with a single denial in the source.
C5_CriticalByContainment ==
  /\ pc = "returned"
  /\ args.errorCode = severityText.AccessDeniedException
  /\ args.totalDenials = 1
  /\ ret = "Critical"

---------------------------------------------------------------------------
(* Regular expressions of cloudwatch-logs                                  *)
(*                                                                         *)
(* A regular expression is a record: its items in order, the items that    *)
(* capture group 1 spans, and its i flag.  An item is a literal text, a    *)
(* greedy repetition of a character class (min is 0 for *, 1 for +) or an  *)
(* alternation of literal texts.                                           *)

Lit(text) == [kind |-> "lit", text |-> text, cls |-> "", min |-> 0, alts |-> <<>>]
Rep(cls, min) == [kind |-> "rep", text |-> <<>>, cls |-> cls, min |-> min, alts |-> <<>>]
Alt(alts) == [kind |-> "alt", text |-> <<>>, cls |-> "", min |-> 0, alts |-> alts]

RegExp(items, capFrom, capTo, ignoreCase) ==
  [items |-> items, capFrom |-> capFrom, capTo |-> capTo, ignoreCase |-> ignoreCase]

\* \s, restricted to the white space a log line of the model can hold
whitespace == {" ", "\t", "\n"}

alnumChars == {UpperChars[i] : i \in 1..26} \cup {LowerChars[i] : i \in 1..26} \cup {Digits[i] : i \in 1..10}

isAlnum(c) == c \in alnumChars

inClass(cls, c) ==
  CASE cls = "space" -> c \in whitespace                           \* \s
    [] cls = "actionChar" -> isAlnum(c) \/ c \in {":", "_", "-"}   \* [a-zA-Z0-9:_-]
    [] cls = "alnum" -> isAlnum(c)                                 \* [a-zA-Z0-9]
    [] cls = "notSpaceComma" -> c \notin (whitespace \cup {","})   \* [^\s,]
    [] cls = "notColonSpace" -> c \notin (whitespace \cup {":"})   \* [^:\s]
    [] cls = "nameChar" -> isAlnum(c) \/ c \in {".", "-", "_", "/", "#"}  \* [\.\-_\/#A-Za-z0-9]
    [] cls = "dot" -> c # "\n"                                     \* .

litAt(s, text, i, ignoreCase) ==
  /\ i + Len(text) - 1 <= Len(s)
  /\ \A j \in 1..Len(text) :
       \/ s[i + j - 1] = text[j]
       \/ ignoreCase /\ toLowerChar(s[i + j - 1]) = toLowerChar(text[j])

\* the length of the longest run of characters of the class that starts at i
maxRun(s, cls, i) ==
  LET stops == {j \in i..Len(s) : ~inClass(cls, s[j])}
  IN IF stops = {} THEN Len(s) - i + 1
     ELSE (CHOOSE j \in stops : \A k \in i..(j - 1) : inClass(cls, s[k])) - i

noMatch == [ok |-> FALSE, end |-> 0, from |-> 0, to |-> 0]

\* The backtracking match of items k.. at position i: a repetition takes
\* the longest run that lets the rest match, an alternation its first
\* alternative that does.  from/to delimit capture group 1.
RECURSIVE matchItems(_, _, _, _), repeat(_, _, _, _), alternate(_, _, _, _, _)
matchItems(s, re, k, i) ==
  LET found ==
        IF k > Len(re.items) THEN [ok |-> TRUE, end |-> i, from |-> 0, to |-> 0]
        ELSE CASE re.items[k].kind = "lit" ->
                    IF litAt(s, re.items[k].text, i, re.ignoreCase)
                    THEN matchItems(s, re, k + 1, i + Len(re.items[k].text))
                    ELSE noMatch
               [] re.items[k].kind = "alt" -> alternate(s, re, k, i, 1)
               [] re.items[k].kind = "rep" -> repeat(s, re, k, i)
  IN [found EXCEPT !.from = IF k = re.capFrom THEN i ELSE @,
                   !.to = IF k = re.capTo + 1 THEN i ELSE @]

\* item k repeated as often as the rest of the match allows, at least min times
repeat(s, re, k, i) ==
  CHOOSE found \in
    {IF fits = {} THEN noMatch
     ELSE (CHOOSE longest \in fits : \A other \in fits : other.n <= longest.n).rest :
     fits \in {{try \in {[n |-> n, rest |-> matchItems(s, re, k + 1, i + n)] :
                           n \in re.items[k].min..maxRun(s, re.items[k].cls, i)} : try.rest.ok}}} : TRUE

\* alternative a of item k, or a later one when the rest does not match then
alternate(s, re, k, i, a) ==
  IF a > Len(re.items[k].alts) THEN noMatch
  ELSE IF ~litAt(s, re.items[k].alts[a], i, re.ignoreCase) THEN alternate(s, re, k, i, a + 1)
  ELSE CHOOSE m \in {IF rest.ok THEN rest ELSE alternate(s, re, k, i, a + 1) :
                     rest \in {matchItems(s, re, k + 1, i + Len(re.items[k].alts[a]))}} : TRUE

\* String.prototype.match without the g flag: the leftmost match, as
\* <<[whole, group1]>>, or <<>> for null
match(s, re) ==
  CHOOSE found \in
    {IF fits = {} THEN <<>>
     ELSE LET leftmost == CHOOSE first \in fits : \A other \in fits : first.at <= other.at
          IN <<[whole |-> SubSeq(s, leftmost.at, leftmost.m.end - 1),
                group1 |-> SubSeq(s, leftmost.m.from, leftmost.m.to - 1)]>> :
     fits \in {{try \in {[at |-> i, m |-> matchItems(s, re, 1, i)] : i \in 1..(Len(s) + 1)} : try.m.ok}}} : TRUE

\* RegExp.prototype.test
test(re, s) == match(s, re) # <<>>

---------------------------------------------------------------------------
(* String literals of cloudwatch-logs *)

logsText ==
  [ PerformColon |-> <<"p","e","r","f","o","r","m",":">>,
    Perform |-> <<"p","e","r","f","o","r","m">>,
    Action |-> <<"a","c","t","i","o","n">>,
    ActionColon |-> <<"A","c","t","i","o","n",":">>,
    OperationColon |-> <<"O","p","e","r","a","t","i","o","n",":">>,
    EventNameColon |-> <<"E","v","e","n","t","N","a","m","e",":">>,
    Colon |-> <<":">>,
    OnResourceColon |-> <<"o","n"," ","r","e","s","o","u","r","c","e",":">>,
    ResourceColon |-> <<"r","e","s","o","u","r","c","e",":">>,
    On |-> <<"o","n">>,
    ArnAws |-> <<"a","r","n",":","a","w","s",":">>,
    OnTable |-> <<"o","n"," ","t","a","b","l","e">>,
    Table |-> <<"t","a","b","l","e">>,
    TableSpace |-> <<"t","a","b","l","e"," ">>,
    BucketColon |-> <<"B","u","c","k","e","t",":">>,
    KeyColon |-> <<"K","e","y",":">>,
    UserColon |-> <<"U","s","e","r",":">>,
    Principal |-> <<"P","r","i","n","c","i","p","a","l">>,
    ArnAwsIam |-> <<"a","r","n",":","a","w","s",":","i","a","m",":",":">>,
    User |-> <<"u","s","e","r">>,
    Role |-> <<"r","o","l","e">>,
    Slash |-> <<"/">>,
    For |-> <<"f","o","r">>,
    RoleSlash |-> <<"r","o","l","e","/">>,
    RoleColon |-> <<"R","o","l","e",":">>,
    PrincipalColon |-> <<"P","r","i","n","c","i","p","a","l",":">>,
    ErrorCodeColon |-> <<"E","r","r","o","r","C","o","d","e",":">>,
    AccessDenied |-> <<"A","c","c","e","s","s","D","e","n","i","e","d">>,
    UnauthorizedOperation |-> <<"U","n","a","u","t","h","o","r","i","z","e","d","O","p","e","r","a","t","i","o","n">>,
    Forbidden |-> <<"F","o","r","b","i","d","d","e","n">>,
    InvalidUserIDNotFound |-> <<"I","n","v","a","l","i","d","U","s","e","r","I","D",".","N","o","t","F","o","u","n","d">>,
    InvalidAction |-> <<"I","n","v","a","l","i","d","A","c","t","i","o","n">>,
    NoSuchBucket |-> <<"N","o","S","u","c","h","B","u","c","k","e","t">>,
    NoSuchKey |-> <<"N","o","S","u","c","h","K","e","y">>,
    CredentialsNotFound |-> <<"C","r","e","d","e","n","t","i","a","l","s","N","o","t","F","o","u","n","d">>,
    InvalidAccessKeyId |-> <<"I","n","v","a","l","i","d","A","c","c","e","s","s","K","e","y","I","d">>,
    SignatureDoesNotMatch |-> <<"S","i","g","n","a","t","u","r","e","D","o","e","s","N","o","t","M","a","t","c","h">>,
    TokenRefreshRequired |-> <<"T","o","k","e","n","R","e","f","r","e","s","h","R","e","q","u","i","r","e","d">>,
    NotAuthorized |-> <<"n","o","t"," ","a","u","t","h","o","r","i","z","e","d">>,
    PermissionDenied |-> <<"p","e","r","m","i","s","s","i","o","n"," ","d","e","n","i","e","d">>,
    AccessDeniedWords |-> <<"a","c","c","e","s","s"," ","d","e","n","i","e","d">>,
    UserIsNotAuthorizedToPerform |-> <<"U","s","e","r"," ","i","s"," ","n","o","t"," ","a","u","t","h","o","r","i","z","e","d"," ","t","o"," ","p","e","r","f","o","r","m">>,
    IsNotAuthorizedToPerform |-> <<"i","s"," ","n","o","t"," ","a","u","t","h","o","r","i","z","e","d"," ","t","o"," ","p","e","r","f","o","r","m">>,
    StatesTaskFailed |-> <<"S","t","a","t","e","s",".","T","a","s","k","F","a","i","l","e","d">>,
    StatesExecutionFailed |-> <<"S","t","a","t","e","s",".","E","x","e","c","u","t","i","o","n","F","a","i","l","e","d">>,
    LambdaInvokeFunction |-> <<"l","a","m","b","d","a",":","I","n","v","o","k","e","F","u","n","c","t","i","o","n">>,
    UserColonSpace |-> <<"U","s","e","r",":"," ">>,
    NotAuthorizedLambda |-> <<" ","i","s"," ","n","o","t"," ","a","u","t","h","o","r","i","z","e","d"," ","t","o"," ","p","e","r","f","o","r","m",":"," ","l","a","m","b","d","a",":","I","n","v","o","k","e","F","u","n","c","t","i","o","n">>,
    NotAuthorizedSns |-> <<" ","i","s"," ","n","o","t"," ","a","u","t","h","o","r","i","z","e","d"," ","t","o"," ","p","e","r","f","o","r","m",":"," ","s","n","s",":","P","u","b","l","i","s","h">>,
    NotAuthorizedSqs |-> <<" ","i","s"," ","n","o","t"," ","a","u","t","h","o","r","i","z","e","d"," ","t","o"," ","p","e","r","f","o","r","m",":"," ","s","q","s",":","S","e","n","d","M","e","s","s","a","g","e">>,
    NotAuthorizedDynamodb |-> <<" ","i","s"," ","n","o","t"," ","a","u","t","h","o","r","i","z","e","d"," ","t","o"," ","p","e","r","f","o","r","m",":"," ","d","y","n","a","m","o","d","b",":">>,
    NotAuthorizedS3 |-> <<" ","i","s"," ","n","o","t"," ","a","u","t","h","o","r","i","z","e","d"," ","t","o"," ","p","e","r","f","o","r","m",":"," ","s","3",":">>,
    NotAuthorizedKms |-> <<" ","i","s"," ","n","o","t"," ","a","u","t","h","o","r","i","z","e","d"," ","t","o"," ","p","e","r","f","o","r","m",":"," ","k","m","s",":">>,
    Unknown |-> <<"U","n","k","n","o","w","n">>,
    unknown |-> <<"u","n","k","n","o","w","n">>,
    StepFunction |-> <<"s","t","e","p","f","u","n","c","t","i","o","n">>,
    StateMachine |-> <<"s","t","a","t","e","m","a","c","h","i","n","e">>,
    AwsStepFunctions |-> <<"/","a","w","s","/","s","t","e","p","f","u","n","c","t","i","o","n","s","/">>,
    Https |-> <<"h","t","t","p","s",":","/","/">>,
    AmazonAws |-> <<"a","m","a","z","o","n","a","w","s",".","c","o","m">>,
    ObjectObject |-> <<"[","o","b","j","e","c","t"," ","O","b","j","e","c","t","]">>,
    JsonEventName |-> <<"e","v","e","n","t","N","a","m","e">>,
    JsonAction |-> <<"a","c","t","i","o","n">>,
    JsonOperation |-> <<"o","p","e","r","a","t","i","o","n">>,
    JsonResources |-> <<"r","e","s","o","u","r","c","e","s">>,
    JsonIndex0 |-> <<"0">>,
    JsonARN |-> <<"A","R","N">>,
    JsonResourceARN |-> <<"r","e","s","o","u","r","c","e","A","R","N">>,
    JsonResource |-> <<"r","e","s","o","u","r","c","e">>,
    JsonBucketName |-> <<"b","u","c","k","e","t","N","a","m","e">>,
    JsonKey |-> <<"k","e","y">>,
    JsonUserIdentity |-> <<"u","s","e","r","I","d","e","n","t","i","t","y">>,
    JsonArn |-> <<"a","r","n">>,
    JsonUserName |-> <<"u","s","e","r","N","a","m","e">>,
    JsonPrincipal |-> <<"p","r","i","n","c","i","p","a","l">>,
    JsonUser |-> <<"u","s","e","r">>,
    JsonErrorCode |-> <<"e","r","r","o","r","C","o","d","e">>,
    JsonErrorMessage |-> <<"e","r","r","o","r","M","e","s","s","a","g","e">>,
    JsonError |-> <<"e","r","r","o","r">>,
    JsonSourceIPAddress |-> <<"s","o","u","r","c","e","I","P","A","d","d","r","e","s","s">>,
    JsonSourceIp |-> <<"s","o","u","r","c","e","I","p">>,
    JsonUserAgent |-> <<"u","s","e","r","A","g","e","n","t">> ]

---------------------------------------------------------------------------
(* CloudWatchLogsService: the denial parser *)

\* /<text>/i and /(<text>)/i
literally(text) == RegExp(<<Lit(text)>>, 1, 1, TRUE)

\* /User: .* <text>/i
userThen(text) == RegExp(<<Lit(logsText.UserColonSpace), Rep("dot", 0), Lit(text)>>, 1, 3, TRUE)

denialPatterns ==
  << literally(logsText.AccessDenied),
     literally(logsText.UnauthorizedOperation),
     literally(logsText.Forbidden),
     literally(logsText.NotAuthorized),
     literally(logsText.PermissionDenied),
     literally(logsText.AccessDeniedWords),
     literally(logsText.InvalidUserIDNotFound),
     literally(logsText.InvalidAction),
     literally(logsText.CredentialsNotFound),
     literally(logsText.InvalidAccessKeyId),
     literally(logsText.SignatureDoesNotMatch),
     literally(logsText.TokenRefreshRequired),
     literally(logsText.UserIsNotAuthorizedToPerform),
     literally(logsText.IsNotAuthorizedToPerform),
     literally(logsText.StatesTaskFailed),
     literally(logsText.StatesExecutionFailed),
     literally(logsText.LambdaInvokeFunction),
     userThen(logsText.NotAuthorizedLambda),
     userThen(logsText.NotAuthorizedSns),
     userThen(logsText.NotAuthorizedSqs),
     userThen(logsText.NotAuthorizedDynamodb),
     userThen(logsText.NotAuthorizedS3),
     userThen(logsText.NotAuthorizedKms) >>

\* mutant: the patterns without their i flag
hasPermissionDenialPattern_caseSensitive(message) ==
  \E p \in 1..Len(denialPatterns) : test([denialPatterns[p] EXCEPT !.ignoreCase = FALSE], message)

hasPermissionDenialPattern(message) ==
  \E p \in 1..Len(denialPatterns) : test(denialPatterns[p], message)

\* /<label>\s*(<cls>+)/i and /<label>\s+(<cls>+)/i
labelled(label, spaces, cls) == RegExp(<<Lit(label), Rep("space", spaces), Rep(cls, 1)>>, 3, 3, TRUE)

actionPatterns ==
  << labelled(logsText.PerformColon, 0, "actionChar"),
     labelled(logsText.Perform, 1, "actionChar"),
     labelled(logsText.Action, 1, "actionChar"),
     labelled(logsText.ActionColon, 0, "notSpaceComma"),
     labelled(logsText.OperationColon, 0, "notSpaceComma"),
     labelled(logsText.EventNameColon, 0, "notSpaceComma"),
     RegExp(<<Rep("alnum", 1), Lit(logsText.Colon), Rep("alnum", 1)>>, 1, 3, FALSE) >>

\* arn:aws:[^:\s]+:[^:\s]*:[^:\s]*:[^:\s]+:[^\s,]+
arnItems ==
  << Lit(logsText.ArnAws), Rep("notColonSpace", 1), Lit(logsText.Colon), Rep("notColonSpace", 0),
     Lit(logsText.Colon), Rep("notColonSpace", 0), Lit(logsText.Colon), Rep("notColonSpace", 1),
     Lit(logsText.Colon), Rep("notSpaceComma", 1) >>

resourcePatterns ==
  << RegExp(<<Lit(logsText.OnResourceColon), Rep("space", 0)>> \o arnItems, 3, 12, TRUE),
     RegExp(<<Lit(logsText.ResourceColon), Rep("space", 0)>> \o arnItems, 3, 12, TRUE),
     RegExp(<<Lit(logsText.On), Rep("space", 1)>> \o arnItems, 3, 12, TRUE),
     RegExp(arnItems, 1, 10, TRUE),
     labelled(logsText.OnTable, 1, "notSpaceComma"),
     labelled(logsText.Table, 1, "notSpaceComma"),
     labelled(logsText.ResourceColon, 0, "notSpaceComma"),
     labelled(logsText.BucketColon, 0, "notSpaceComma"),
     labelled(logsText.KeyColon, 0, "notSpaceComma") >>

\* arn:aws:iam::[^:\s]+:(user|role)\/[^\s,]+
iamArnItems ==
  << Lit(logsText.ArnAwsIam), Rep("notColonSpace", 1), Lit(logsText.Colon),
     Alt(<<logsText.User, logsText.Role>>), Lit(logsText.Slash), Rep("notSpaceComma", 1) >>

principalPatterns ==
  << RegExp(<<Lit(logsText.UserColon), Rep("space", 0)>> \o iamArnItems, 3, 8, TRUE),
     RegExp(<<Lit(logsText.Principal), Rep("space", 1)>> \o iamArnItems, 3, 8, TRUE),
     RegExp(iamArnItems, 1, 6, TRUE),
     RegExp(<<Lit(logsText.For), Rep("space", 1), Lit(logsText.RoleSlash), Rep("notSpaceComma", 1)>>, 3, 4, TRUE),
     labelled(logsText.UserColon, 0, "notSpaceComma"),
     labelled(logsText.RoleColon, 0, "notSpaceComma"),
     labelled(logsText.PrincipalColon, 0, "notSpaceComma") >>

errorPatterns ==
  << labelled(logsText.ErrorCodeColon, 0, "notSpaceComma"),
     literally(logsText.AccessDenied),
     literally(logsText.UnauthorizedOperation),
     literally(logsText.Forbidden),
     literally(logsText.InvalidUserIDNotFound),
     literally(logsText.InvalidAction),
     literally(logsText.NoSuchBucket),
     literally(logsText.NoSuchKey),
     literally(logsText.CredentialsNotFound),
     literally(logsText.InvalidAccessKeyId),
     literally(logsText.SignatureDoesNotMatch),
     literally(logsText.TokenRefreshRequired) >>

\* mutant: the last pattern of the list that matches decides
firstCapture_lastPattern(message, patterns, p) ==
  CHOOSE hit \in
    {IF \A q \in p..Len(patterns) : ms[q] = <<>> \/ ms[q][1].group1 = <<>> THEN <<>>
     ELSE CHOOSE last \in {<<[index |-> q, group1 |-> ms[q][1].group1]>> :
                             q \in {q \in p..Len(patterns) : ms[q] # <<>> /\ ms[q][1].group1 # <<>>}} :
            \A q \in (last[1].index + 1)..Len(patterns) : ms[q] = <<>> \/ ms[q][1].group1 = <<>> :
     ms \in {[q \in p..Len(patterns) |-> match(message, patterns[q])]}} : TRUE

\* the loop over the patterns from pattern p on: the first match whose
\* group 1 is not empty, with the index of its pattern, or <<>>
RECURSIVE firstCapture(_, _, _)
firstCapture(message, patterns, p) ==
  IF p > Len(patterns) THEN <<>>
  ELSE CHOOSE hit \in
         {IF m # <<>> /\ m[1].group1 # <<>> THEN <<[index |-> p, group1 |-> m[1].group1]>>
          ELSE firstCapture(message, patterns, p + 1) :
          m \in {match(message, patterns[p])}} : TRUE

\* the loop over the patterns from pattern p on: the first match, or <<>>
RECURSIVE firstMatch(_, _, _)
firstMatch(message, patterns, p) ==
  IF p > Len(patterns) THEN <<>>
  ELSE CHOOSE hit \in
         {IF m # <<>> THEN m ELSE firstMatch(message, patterns, p + 1) :
          m \in {match(message, patterns[p])}} : TRUE

\* pattern.source.includes(word), for a word of a literal part of the pattern
sourceIncludes(re, word) ==
  \E k \in 1..Len(re.items) : re.items[k].kind = "lit" /\ includes(re.items[k].text, word)

extractActionFromText(message) ==
  CHOOSE action \in
    {IF hit = <<>> THEN logsText.Unknown ELSE hit[1].group1 :
     hit \in {firstCapture(message, actionPatterns, 1)}} : TRUE

extractResourceFromText(message) ==
  CHOOSE resource \in
    {IF hit = <<>> THEN logsText.Unknown
     ELSE IF sourceIncludes(resourcePatterns[hit[1].index], logsText.Table)
             /\ ~startsWith(hit[1].group1, logsText.TableSpace)
     THEN logsText.TableSpace \o hit[1].group1
     ELSE hit[1].group1 :
     hit \in {firstCapture(message, resourcePatterns, 1)}} : TRUE

extractPrincipalFromText(message) ==
  CHOOSE principal \in
    {IF hit = <<>> THEN logsText.Unknown ELSE hit[1].group1 :
     hit \in {firstCapture(message, principalPatterns, 1)}} : TRUE

extractErrorCodeFromText(message) ==
  CHOOSE errorCode \in
    {IF hit # <<>>
     THEN IF hit[1].group1 # <<>> THEN hit[1].group1
          ELSE IF hit[1].whole # <<>> THEN hit[1].whole
          ELSE logsText.Unknown
     ELSE IF test(literally(logsText.NotAuthorized), message) \/ test(literally(logsText.AccessDeniedWords), message)
     THEN logsText.AccessDenied
     ELSE logsText.Unknown :
     hit \in {firstMatch(message, errorPatterns, 1)}} : TRUE

\* v[key] of an optional value, with ?. : undefined unless v has the member
prop(v, key) ==
  IF v = <<>> THEN <<>>
  ELSE LET hits == {i \in 1..Len(v[1].c) : v[1].c[i].k = key}
       IN IF hits = {} THEN <<>> ELSE <<v[1].c[CHOOSE i \in hits : \A j \in hits : j <= i].v>>

truthy(v) ==
  /\ v # <<>>
  /\ v[1].t = "str" => v[1].s # <<>>
  /\ v[1].t = "num" => v[1].s # <<"0">>

\* mutant: the first operand that is present, whatever its value
orChain_firstPresent(operands, last) ==
  IF \A i \in 1..Len(operands) : operands[i] = <<>> THEN last
  ELSE operands[CHOOSE i \in 1..Len(operands) : operands[i] # <<>> /\ \A j \in 1..(i - 1) : operands[j] = <<>>]

\* a || b || ... || last, last being evaluated when no operand before it is truthy
orChain(operands, last) ==
  IF \A i \in 1..Len(operands) : ~truthy(operands[i]) THEN last
  ELSE operands[CHOOSE i \in 1..Len(operands) : truthy(operands[i]) /\ \A j \in 1..(i - 1) : ~truthy(operands[j])]

\* String(v)
toStringValue(v) == IF v.t \in {"str", "num"} THEN v.s ELSE logsText.ObjectObject

RECURSIVE stringify(_)
\* JSON.stringify of a value whose strings need no escapes
stringify(v) ==
  CASE v.t = "str" -> <<"\"">> \o v.s \o <<"\"">>
    [] v.t = "num" -> v.s
    [] v.t = "obj" -> <<"{">> \o join([i \in 1..Len(v.c) |->
                         <<"\"">> \o v.c[i].k \o <<"\"", ":">> \o stringify(v.c[i].v)], <<",">>) \o <<"}">>
    [] v.t = "arr" -> <<"[">> \o join([i \in 1..Len(v.c) |-> stringify(v.c[i].v)], <<",">>) \o <<"]">>

\* A log message is its text together with the document the text encodes:
\* json is <<v>> for the text JSON.stringify(v) and <<>> for a text that is
\* not JSON, on which JSON.parse throws.
textMessage(text) == [raw |-> text, json |-> <<>>]
jsonMessage(v) == [raw |-> stringify(v), json |-> <<v>>]

extractAction(parsedMessage, rawMessage) ==
  orChain(<<prop(parsedMessage, logsText.JsonEventName),
            prop(parsedMessage, logsText.JsonAction),
            prop(parsedMessage, logsText.JsonOperation)>>,
          orChain(<<<<Str(extractActionFromText(rawMessage))>>>>, <<Str(logsText.Unknown)>>))[1]

extractResource(parsedMessage, rawMessage) ==
  orChain(<<prop(prop(prop(parsedMessage, logsText.JsonResources), logsText.JsonIndex0), logsText.JsonARN),
            prop(parsedMessage, logsText.JsonResourceARN),
            prop(parsedMessage, logsText.JsonResource),
            prop(parsedMessage, logsText.JsonBucketName),
            prop(parsedMessage, logsText.JsonKey)>>,
          orChain(<<<<Str(extractResourceFromText(rawMessage))>>>>, <<Str(logsText.Unknown)>>))[1]

extractPrincipal(parsedMessage, rawMessage) ==
  orChain(<<prop(prop(parsedMessage, logsText.JsonUserIdentity), logsText.JsonArn),
            prop(prop(parsedMessage, logsText.JsonUserIdentity), logsText.JsonUserName),
            prop(parsedMessage, logsText.JsonPrincipal),
            prop(parsedMessage, logsText.JsonUser)>>,
          orChain(<<<<Str(extractPrincipalFromText(rawMessage))>>>>, <<Str(logsText.Unknown)>>))[1]

extractErrorCode(parsedMessage, rawMessage) ==
  orChain(<<prop(parsedMessage, logsText.JsonErrorCode),
            prop(parsedMessage, logsText.JsonErrorMessage),
            prop(parsedMessage, logsText.JsonError)>>,
          orChain(<<<<Str(extractErrorCodeFromText(rawMessage))>>>>, <<Str(logsText.Unknown)>>))[1]

\* the largest time value a Date holds (8.64e15 ms), in the model's unit of time
MaxTimeValue == 8

\* the outcome of parsePermissionDenial: null, a denial, or an error thrown
returnsNull == [kind |-> "null"]
throws == [kind |-> "throw"]
returns(denial) == [kind |-> "denial", denial |-> denial]

parsePermissionDenial(event, logGroupName) ==
  IF event.message.raw = <<>> \/ event.timestamp \in {<<>>, <<0>>} \/ event.logStreamName = <<>>
  THEN returnsNull
  ELSE IF ~hasPermissionDenialPattern(event.message.raw) THEN returnsNull
  ELSE IF event.timestamp[1] > MaxTimeValue
  THEN throws       \* toISOString raises RangeError in the try block and again in the catch block
  ELSE IF event.message.json # <<>>
  THEN returns([timestamp |-> toISOString(event.timestamp[1]),
                logGroup |-> logGroupName,
                logStream |-> IF event.logStreamName # <<>> THEN event.logStreamName ELSE logsText.unknown,
                message |-> event.message.raw,
                action |-> extractAction(event.message.json, event.message.raw),
                resource |-> extractResource(event.message.json, event.message.raw),
                principal |-> extractPrincipal(event.message.json, event.message.raw),
                errorCode |-> extractErrorCode(event.message.json, event.message.raw),
                sourceIp |-> orChain(<<prop(event.message.json, logsText.JsonSourceIPAddress),
                                       prop(event.message.json, logsText.JsonSourceIp)>>, <<>>),
                userAgent |-> orChain(<<prop(event.message.json, logsText.JsonUserAgent)>>, <<>>)])
  ELSE returns([timestamp |-> toISOString(event.timestamp[1]),
                logGroup |-> logGroupName,
                logStream |-> IF event.logStreamName # <<>> THEN event.logStreamName ELSE logsText.unknown,
                message |-> event.message.raw,
                action |-> Str(extractActionFromText(event.message.raw)),
                resource |-> Str(extractResourceFromText(event.message.raw)),
                principal |-> Str(extractPrincipalFromText(event.message.raw)),
                errorCode |-> Str(extractErrorCodeFromText(event.message.raw)),
                sourceIp |-> <<>>,
                userAgent |-> <<>>])

---------------------------------------------------------------------------
(* Log records given to the parser *)

eventText ==
  [ NotAuthorizedS3 |-> <<"U","s","e","r",":"," ","a","r","n",":","a","w","s",":","i","a","m",":",":","1",":","r","o","l","e","/","r"," ","i","s"," ","n","o","t"," ","a","u","t","h","o","r","i","z","e","d"," ","t","o"," ","p","e","r","f","o","r","m",":"," ","s","3",":","G","e","t","O","b","j","e","c","t"," ","o","n"," ","r","e","s","o","u","r","c","e",":"," ","a","r","n",":","a","w","s",":","s","3",":",":",":","b","/","k">>,
    PermissionDeniedTable |-> <<"P","e","r","m","i","s","s","i","o","n"," ","D","e","n","i","e","d"," ","f","o","r"," ","r","o","l","e","/","r"," ","o","n"," ","t","a","b","l","e"," ","t">>,
    NoVocabulary |-> <<"I","N","F","O"," ","o","k">>,
    TaskFailed |-> <<"S","t","a","t","e","s",".","T","a","s","k","F","a","i","l","e","d">>,
    ForbiddenS3 |-> <<"F","o","r","b","i","d","d","e","n",":"," ","s","3",":","G","e","t","O","b","j","e","c","t"," ","f","o","r"," ","r","o","l","e","/","r">>,
    Stream |-> <<"s","1">>,
    GetObject |-> <<"G","e","t","O","b","j","e","c","t">>,
    AccessDenied |-> <<"A","c","c","e","s","s","D","e","n","i","e","d">>,
    BucketArn |-> <<"a","r","n",":","a","w","s",":","s","3",":",":",":","b","/","k">>,
    UserArn |-> <<"a","r","n",":","a","w","s",":","i","a","m",":",":","1",":","u","s","e","r","/","u">>,
    Address |-> <<"1","0",".","0",".","0",".","1">>,
    Level |-> <<"l","e","v","e","l">>,
    Info |-> <<"i","n","f","o">>,
    Code123 |-> <<"1","2","3">>,
    Code403 |-> <<"4","0","3">>,
    DynamodbQuery |-> <<"d","y","n","a","m","o","d","b",":","Q","u","e","r","y">>,
    TableT |-> <<"t">>,
    Forbidden |-> <<"F","o","r","b","i","d","d","e","n">>,
    JsonMessage |-> <<"m","e","s","s","a","g","e">>,
    DeniedS3 |-> <<"A","c","c","e","s","s","D","e","n","i","e","d"," ","t","o"," ","p","e","r","f","o","r","m",":"," ","s","3",":","G","e","t","O","b","j","e","c","t">>,
    LowerDeniedS3 |-> <<"a","c","c","e","s","s","d","e","n","i","e","d"," ","t","o"," ","p","e","r","f","o","r","m",":"," ","s","3",":","G","e","t","O","b","j","e","c","t">>,
    S3GetObject |-> <<"s","3",":","G","e","t","O","b","j","e","c","t">>,
    LowerAccessDenied |-> <<"a","c","c","e","s","s","d","e","n","i","e","d">> ]

member(k, v) == [k |-> k, v |-> v]

\* a CloudTrail-style record, a record whose eventName is a number, a record
\* without denial vocabulary, a record whose errorCode is a number, a record
\* whose eventName is the empty string, a record with none of the keys, and
\* a record whose errorCode spells the error name in lower case
jsonRecords ==
  << Obj(<<member(logsText.JsonEventName, Str(eventText.GetObject)),
           member(logsText.JsonErrorCode, Str(eventText.AccessDenied)),
           member(logsText.JsonResources, Arr(<<member(logsText.JsonIndex0, Obj(<<member(logsText.JsonARN, Str(eventText.BucketArn))>>))>>)),
           member(logsText.JsonUserIdentity, Obj(<<member(logsText.JsonArn, Str(eventText.UserArn))>>)),
           member(logsText.JsonSourceIPAddress, Str(eventText.Address))>>),
     Obj(<<member(logsText.JsonEventName, Num(eventText.Code123)),
           member(logsText.JsonErrorCode, Str(eventText.AccessDenied))>>),
     Obj(<<member(eventText.Level, Str(eventText.Info))>>),
     Obj(<<member(logsText.JsonEventName, Str(eventText.DynamodbQuery)),
           member(logsText.JsonResource, Str(eventText.TableT)),
           member(logsText.JsonErrorCode, Num(eventText.Code403)),
           member(eventText.JsonMessage, Str(eventText.Forbidden))>>),
     Obj(<<member(logsText.JsonEventName, Str(<<>>)),
           member(logsText.JsonAction, Str(eventText.GetObject)),
           member(logsText.JsonErrorCode, Str(eventText.AccessDenied))>>),
     Obj(<<member(eventText.JsonMessage, Str(eventText.ForbiddenS3))>>),
     Obj(<<member(logsText.JsonAction, Str(eventText.S3GetObject)),
           member(logsText.JsonErrorCode, Str(eventText.LowerAccessDenied))>>) >>

logEvent(message, timestamp, logStreamName) ==
  [message |-> message, timestamp |-> timestamp, logStreamName |-> logStreamName]

\* complete records: every message with a timestamp a Date holds and a stream name
completeEvents ==
  {logEvent(m, <<1>>, eventText.Stream) :
     m \in {textMessage(eventText.NotAuthorizedS3), textMessage(eventText.PermissionDeniedTable),
            textMessage(eventText.ForbiddenS3), textMessage(eventText.NoVocabulary),
            textMessage(eventText.TaskFailed), textMessage(eventText.DeniedS3),
            textMessage(eventText.LowerDeniedS3)}
           \cup {jsonMessage(jsonRecords[i]) : i \in 1..Len(jsonRecords)}}

\* records that lack a field or hold a field out of its range
defectiveEvents ==
  { logEvent(textMessage(<<>>), <<1>>, eventText.Stream),
    logEvent(textMessage(eventText.NotAuthorizedS3), <<>>, eventText.Stream),
    logEvent(textMessage(eventText.NotAuthorizedS3), <<0>>, eventText.Stream),
    logEvent(textMessage(eventText.NotAuthorizedS3), <<1>>, <<>>),
    logEvent(textMessage(eventText.ForbiddenS3), <<MaxTimeValue + 1>>, eventText.Stream),
    logEvent(jsonMessage(jsonRecords[1]), <<MaxTimeValue + 1>>, eventText.Stream) }

ParseEvents == completeEvents \cup defectiveEvents

\* parsePermissionDenial tabulated over the records of the model
parsedRecords == [event \in ParseEvents |-> parsePermissionDenial(event, <<>>)]

\* parsePermissionDenial(event, logGroupName) read from the table: the log
\* group name goes unchanged into the logGroup field of the denial
parsed(event, logGroupName) ==
  CHOOSE result \in
    {IF outcome.kind = "denial" THEN returns([outcome.denial EXCEPT !.logGroup = logGroupName])
     ELSE outcome :
     outcome \in {parsedRecords[event]}} : TRUE

---------------------------------------------------------------------------
(* CloudWatchLogsService: analyzeLogGroups *)

\* an entry of the error log: the catch block that reported it, the log
\* group, and what raised the error
reported(at, logGroupName, cause) == [at |-> at, logGroup |-> logGroupName, cause |-> cause]

isValidLogGroupName(logGroupName) ==
  ~ \/ includes(logGroupName, logsText.ArnAws)
    \/ includes(logGroupName, logsText.Https)
    \/ includes(logGroupName, logsText.AmazonAws)
    \/ ~ /\ logGroupName # <<>>
         /\ \A i \in 1..Len(logGroupName) : inClass("nameChar", logGroupName[i])

checkLogGroupExists(logGroupName, cw) ==
  IF ~isValidLogGroupName(logGroupName) THEN [exists |-> FALSE, errors |-> <<>>]
  ELSE IF cw[logGroupName].describe = "error"
  THEN [exists |-> FALSE, errors |-> <<reported("check", logGroupName, "send")>>]
  ELSE [exists |-> cw[logGroupName].describe = "exists", errors |-> <<>>]

\* the loop over the events of a response: the denials pushed onto
\* permissionDenials until the parse of an event throws
RECURSIVE parseEvents(_, _, _)
parseEvents(events, logGroupName, permissionDenials) ==
  IF events = <<>> THEN [denials |-> permissionDenials, threw |-> FALSE]
  ELSE CHOOSE pushed \in
         {IF denial.kind = "throw" THEN [denials |-> permissionDenials, threw |-> TRUE]
          ELSE parseEvents(Tail(events), logGroupName,
                           IF denial.kind = "denial" THEN Append(permissionDenials, denial.denial)
                           ELSE permissionDenials) :
          denial \in {parsed(Head(events), logGroupName)}} : TRUE

isStateMachineLogGroup(logGroupName) ==
  \/ includes(toLowerCase(logGroupName), logsText.StepFunction)
  \/ includes(toLowerCase(logGroupName), logsText.StateMachine)
  \/ includes(logGroupName, logsText.AwsStepFunctions)

\* mutant: the second fetch made whatever the first one found
secondFetchNeeded_always(permissionDenials, logGroupName) == isStateMachineLogGroup(logGroupName)

secondFetchNeeded(permissionDenials, logGroupName) ==
  Len(permissionDenials) = 0 /\ isStateMachineLogGroup(logGroupName)

\* the try block of searchPermissionDenials and its catch: the denials
\* pushed, and what raised the error the catch block swallowed
fetchDenials(logGroupName, cw) ==
  LET group == cw[logGroupName]
  IN IF ~group.filtered.ok THEN [denials |-> <<>>, cause |-> "send"]
     ELSE CHOOSE fetched \in
            {IF first.threw THEN [denials |-> first.denials, cause |-> "parse"]
             ELSE IF ~secondFetchNeeded(first.denials, logGroupName)
             THEN [denials |-> first.denials, cause |-> "none"]
             ELSE IF ~group.unfiltered.ok THEN [denials |-> first.denials, cause |-> "send"]
             ELSE CHOOSE both \in
                    {[denials |-> second.denials, cause |-> IF second.threw THEN "parse" ELSE "none"] :
                     second \in {parseEvents(group.unfiltered.events, logGroupName, first.denials)}} : TRUE :
             first \in {parseEvents(group.filtered.events, logGroupName, <<>>)}} : TRUE

\* new RegExp(pattern.replace(/\*/g, '.*'), 'i') for a pattern written with
\* literal characters, "*" and "(": <<>> when the constructor throws
\* SyntaxError, which it does for the unterminated group of a "("
roleRegExp(pattern) ==
  IF \E i \in 1..Len(pattern) : pattern[i] = "(" THEN <<>>
  ELSE <<RegExp([i \in 1..Len(pattern) |-> IF pattern[i] = "*" THEN Rep("dot", 0) ELSE Lit(<<pattern[i]>>)],
                1, Len(pattern), TRUE)>>

\* rolePatterns.some(...) for one principal: "yes", "no" or "throw"
RECURSIVE someRolePattern(_, _)
someRolePattern(patterns, principal) ==
  IF patterns = <<>> THEN "no"
  ELSE CHOOSE verdict \in
         {IF regex = <<>> THEN "throw"
          ELSE IF test(regex[1], toStringValue(principal)) THEN "yes"
          ELSE someRolePattern(Tail(patterns), principal) :
          regex \in {roleRegExp(Head(patterns))}} : TRUE

filterByRole(permissionDenials, patterns) ==
  LET verdict == [i \in 1..Len(permissionDenials) |-> someRolePattern(patterns, permissionDenials[i].principal)]
      kept[i \in 0..Len(permissionDenials)] ==
        IF i = 0 THEN <<>>
        ELSE IF verdict[i] = "yes" THEN Append(kept[i - 1], permissionDenials[i]) ELSE kept[i - 1]
  IN IF \E i \in 1..Len(permissionDenials) : verdict[i] = "throw"
     THEN [threw |-> TRUE, denials |-> <<>>]
     ELSE [threw |-> FALSE, denials |-> kept[Len(permissionDenials)]]

searchPermissionDenials(logGroupName, cw, patterns) ==
  CHOOSE outcome \in
    {LET errors == IF fetched.cause = "none" THEN <<>> ELSE <<reported("search", logGroupName, fetched.cause)>>
     IN IF patterns # <<>>
        THEN CHOOSE kept \in
               {[threw |-> filtered.threw, denials |-> filtered.denials, errors |-> errors] :
                filtered \in {filterByRole(fetched.denials, patterns)}} : TRUE
        ELSE [threw |-> FALSE, denials |-> fetched.denials, errors |-> errors] :
     fetched \in {fetchDenials(logGroupName, cw)}} : TRUE

\* mutant: the result put in front of the list
pushResult_unshift(list, result) == <<result>> \o list

\* results.push(result)
pushResult(list, result) == Append(list, result)

\* one iteration of the first loop of analyzeLogGroups
CheckLogGroup ==
  /\ pc = "check"
  /\ \E i \in {Len(validLogGroups) + Len(nonExistentLogGroups) + 1} :
     \E logGroupName \in {logGroupNames[i]} :
     \E check \in {checkLogGroupExists(logGroupName, cloudwatch)} :
        /\ validLogGroups' = IF check.exists THEN Append(validLogGroups, logGroupName) ELSE validLogGroups
        /\ nonExistentLogGroups' = IF check.exists THEN nonExistentLogGroups ELSE Append(nonExistentLogGroups, logGroupName)
        /\ errorLog' = errorLog \o check.errors
        /\ pc' = IF i = Len(logGroupNames) THEN "analyze" ELSE "check"
  /\ UNCHANGED <<analyzerVars, args, ret, logGroupNames, rolePatterns, cloudwatch, results, vi, policyVars, stackVars>>

\* one iteration of the second loop of analyzeLogGroups
AnalyzeLogGroup ==
  /\ pc = "analyze"
  /\ vi <= Len(validLogGroups)
  /\ \E logGroupName \in {validLogGroups[vi]} :
     \E search \in {searchPermissionDenials(logGroupName, cloudwatch, rolePatterns)} :
        IF search.threw
        THEN /\ errorLog' = errorLog \o search.errors \o <<reported("analyze", logGroupName, "rolePattern")>>
             /\ results' = results
        ELSE /\ errorLog' = errorLog \o search.errors
             /\ results' = pushResult(results,
                   [logGroupName |-> logGroupName,
                    associatedResource |-> findAssociatedResource(logGroupName, stackResources),
                    permissionDenials |-> search.denials,
                    totalEvents |-> Len(search.denials)])
  /\ vi' = vi + 1
  /\ UNCHANGED <<analyzerVars, pc, args, ret, logGroupNames, rolePatterns, cloudwatch, validLogGroups, nonExistentLogGroups, policyVars, stackVars>>

\* return results: the list analyzeStack hands to analyzeLogs
ReturnResults ==
  /\ pc = "analyze"
  /\ vi > Len(validLogGroups)
  /\ logAnalysisResults' = results
  /\ pc' = "returned"
  /\ UNCHANGED <<permissionMap, ri, di, suggestions, clock, args, ret, logsVars, policyVars, stackVars>>

---------------------------------------------------------------------------
(* Log groups given to analyzeLogGroups and the answers of CloudWatch Logs *)

MaxLogGroups == 2
MaxTotalEvents == 2

logGroupText ==
  [ StateMachinePrefix |-> <<"/","a","w","s","/","s","t","e","p","f","u","n","c","t","i","o","n","s","/","f">>,
    ArnPrefix |-> <<"a","r","n",":","a","w","s",":","l","o","g","s",":","g">>,
    MatchingRole |-> <<"*","/","r","*">>,
    Unterminated |-> <<"(">> ]

\* every second log group is the log group of a state machine
validNameOf(i) ==
  IF i % 2 = 0 THEN logGroupText.StateMachinePrefix \o <<Digits[i + 1]>> ELSE logGroupNameOf(i)

invalidNameOf(i) == logGroupText.ArnPrefix \o <<Digits[i + 1]>>

\* a denial, and a denial whose timestamp no Date holds
LogEvents ==
  { logEvent(textMessage(eventText.ForbiddenS3), <<1>>, eventText.Stream),
    logEvent(textMessage(eventText.ForbiddenS3), <<MaxTimeValue + 1>>, eventText.Stream) }

\* lines the broad filter pattern does not select
unfilteredOnly ==
  << logEvent(textMessage(eventText.NoVocabulary), <<1>>, eventText.Stream),
     logEvent(textMessage(eventText.TaskFailed), <<1>>, eventText.Stream) >>

response(events) == [ok |-> TRUE, events |-> events]
sendFails == [ok |-> FALSE, events |-> <<>>]

answer(describe, filtered, unfiltered) ==
  [describe |-> describe, filtered |-> filtered, unfiltered |-> unfiltered]

\* what the fetch without filter pattern answers, given the events of the
\* filtered fetch; the code makes it for state machine log groups only
unfilteredAnswers(logGroupName, events) ==
  IF isStateMachineLogGroup(logGroupName)
  THEN {sendFails, response(events), response(events \o unfilteredOnly)}
  ELSE {response(events)}

\* log group i with the answers of CloudWatch Logs, k events in its filtered response
logGroupChoices(i, k) ==
  LET name == validNameOf(i)
      withEvents == UNION {{[name |-> name, answer |-> answer("exists", response(events), unfiltered)] :
                              unfiltered \in unfilteredAnswers(name, events)} : events \in seqsOfLen(LogEvents, k)}
  IN IF k > 0 THEN withEvents
     ELSE withEvents
          \cup {[name |-> invalidNameOf(i), answer |-> answer("absent", sendFails, sendFails)],
                [name |-> name, answer |-> answer("absent", sendFails, sendFails)],
                [name |-> name, answer |-> answer("error", sendFails, sendFails)],
                [name |-> name, answer |-> answer("exists", sendFails, sendFails)]}

\* log groups i..n with at most `budget` events together
RECURSIVE logGroupLists(_, _, _)
logGroupLists(i, n, budget) ==
  IF i > n THEN {<<>>}
  ELSE UNION {{<<first>> \o rest : first \in logGroupChoices(i, k), rest \in logGroupLists(i + 1, n, budget - k)} :
              k \in 0..budget}

RolePatternChoices ==
  {<<>>, <<logGroupText.MatchingRole>>, <<logGroupText.MatchingRole, logGroupText.Unterminated>>}

\* the names are those of the groups, or the first name is listed again in
\* the last place
InitLogs ==
  /\ \E n \in 0..MaxLogGroups : \E groups \in logGroupLists(1, n, MaxTotalEvents) : \E repeated \in BOOLEAN :
       /\ logGroupNames = [i \in 1..n |-> IF repeated /\ i = n THEN groups[1].name ELSE groups[i].name]
       /\ cloudwatch = [name \in {logGroupNames[i] : i \in 1..n} |->
                          groups[CHOOSE i \in 1..n : groups[i].name = name].answer]
  /\ rolePatterns \in RolePatternChoices
  /\ validLogGroups = <<>>
  /\ nonExistentLogGroups = <<>>
  /\ results = <<>>
  /\ vi = 1
  /\ errorLog = <<>>
  /\ pc = IF logGroupNames = <<>> THEN "analyze" ELSE "check"
  /\ noPolicy
  /\ noStack
  /\ logAnalysisResults = <<>>
  /\ permissionMap = <<>>
  /\ ri = 1
  /\ di = 1
  /\ suggestions = <<>>
  /\ clock = 0
  /\ args = "none"
  /\ ret = "none"

NextLogs == CheckLogGroup \/ AnalyzeLogGroup \/ ReturnResults

SpecLogs == InitLogs /\ [][NextLogs]_vars

---------------------------------------------------------------------------
(* The parser followed by analyzeLogs, on the records of one log group *)

MaxParseEvents == 2

InitParse ==
  /\ \E n \in 0..MaxParseEvents :
       args \in [events : seqsOfLen(ParseEvents, n), logGroupName : {logGroupNameOf(1)}]
  /\ ret = <<>>
  /\ pc = "parse"
  /\ logAnalysisResults = <<>>
  /\ permissionMap = <<>>
  /\ ri = 1
  /\ di = 1
  /\ suggestions = <<>>
  /\ clock = 0
  /\ noLogGroups
  /\ noPolicy
  /\ noStack

\* the non-null entries of a list of parser outcomes
RECURSIVE denialsOf(_)
denialsOf(outcomes) ==
  IF outcomes = <<>> THEN <<>>
  ELSE IF Head(outcomes).kind = "denial" THEN <<Head(outcomes).denial>> \o denialsOf(Tail(outcomes))
  ELSE denialsOf(Tail(outcomes))

\* parsePermissionDenial applied to every record; unless one of the calls
\* throws, the denials go to analyzeLogs as the result of the log group
ParseRecords ==
  /\ pc = "parse"
  /\ \E outcomes \in {[i \in 1..Len(args.events) |-> parsed(args.events[i], args.logGroupName)]} :
     \E handed \in {<<[logGroupName |-> args.logGroupName,
                        associatedResource |-> findAssociatedResource(args.logGroupName, stackResources),
                        permissionDenials |-> denialsOf(outcomes),
                        totalEvents |-> Len(denialsOf(outcomes))]>>} :
        /\ ret' = outcomes
        /\ IF \E i \in 1..Len(outcomes) : outcomes[i].kind = "throw"
           THEN /\ pc' = "threw"
                /\ UNCHANGED <<logAnalysisResults, ri>>
           ELSE /\ pc' = "aggregate"
                /\ logAnalysisResults' = handed
                /\ ri' = skipEmpty(handed, 1)
  /\ UNCHANGED <<permissionMap, di, suggestions, clock, args, logsVars, policyVars, stackVars>>

NextParse == ParseRecords \/ ProcessDenial \/ ConvertAndSort

SpecParse == InitParse /\ [][NextParse]_vars

---------------------------------------------------------------------------
(* Claims about analyzeLogGroups *)

\* the log groups for which a call to CloudWatch Logs failed
failedSends == {errorLog[i].logGroup : i \in {j \in 1..Len(errorLog) : errorLog[j].cause = "send"}}

\* the log groups whose analysis raised an error of any kind
troubled == {errorLog[i].logGroup : i \in 1..Len(errorLog)}

\* the log groups whose analysis raised an error while their records were parsed
parseFailures == {errorLog[i].logGroup : i \in {j \in 1..Len(errorLog) : errorLog[j].cause = "parse"}}

resultsFor(logGroupName) == {i \in 1..Len(results) : results[i].logGroupName = logGroupName}

\* C7: when the existence check or a fetch fails for a log group,
\* analyzeLogGroups still returns, the results hold no denial of that log
\* group, and every existing log group whose own analysis raised no error
\* has its entry in the results.
C7_FailingLogGroupIsolated ==
  /\ pc \in {"check", "analyze", "returned"}
  /\ pc = "returned" =>
       /\ \A g \in failedSends : \A i \in resultsFor(g) : results[i].permissionDenials = <<>>
       /\ \A n \in 1..Len(logGroupNames) :
            LET g == logGroupNames[n]
            IN (isValidLogGroupName(g) /\ cloudwatch[g].describe = "exists" /\ g \notin troubled)
               => resultsFor(g) # {}

\* a returned call in which one log group failed and another contributed denials
C7_OneFailedOtherAnalysed ==
  /\ pc = "returned"
  /\ failedSends # {}
  /\ \E i \in 1..Len(results) :
       /\ results[i].logGroupName \notin failedSends
       /\ results[i].permissionDenials # <<>>

\* C8: a log group whose analysis raised an error while its records were
\* parsed has none of its denials in the results handed to analyzeLogs.
C8_NoPartialDenials ==
  pc = "returned" =>
    \A i \in 1..Len(logAnalysisResults) :
      logAnalysisResults[i].logGroupName \in parseFailures => logAnalysisResults[i].permissionDenials = <<>>

---------------------------------------------------------------------------
(* Claims about the parser *)

\* C9: parsePermissionDenial followed by analyzeLogs never throws.
C9_NeverRaises == pc # "threw"

\* the denial vocabulary: the words of the signature patterns
denialVocabulary ==
  { logsText.AccessDenied, logsText.UnauthorizedOperation, logsText.Forbidden, logsText.NotAuthorized,
    logsText.PermissionDenied, logsText.AccessDeniedWords, logsText.InvalidUserIDNotFound,
    logsText.InvalidAction, logsText.CredentialsNotFound, logsText.InvalidAccessKeyId,
    logsText.SignatureDoesNotMatch, logsText.TokenRefreshRequired, logsText.StatesTaskFailed,
    logsText.StatesExecutionFailed, logsText.LambdaInvokeFunction }

mentionsDenial(message) ==
  \E word \in denialVocabulary : includes(toLowerCase(message), toLowerCase(word))

lacksField(event) ==
  event.message.raw = <<>> \/ event.timestamp \in {<<>>, <<0>>} \/ event.logStreamName = <<>>

---------------------------------------------------------------------------
(* PermissionAnalyzerService: optimizeResourceArn *)

optimizerText ==
  [ Star |-> <<"*">>,
    SlashStar |-> <<"/","*">>,
    S3 |-> <<"a","r","n",":","a","w","s",":","s","3",":",":",":">>,
    Logs |-> <<"a","r","n",":","a","w","s",":","l","o","g","s",":">>,
    LogGroup |-> <<"l","o","g","-","g","r","o","u","p",":">>,
    LogGroupStar |-> <<"l","o","g","-","g","r","o","u","p",":","*">> ]

\* String.prototype.replace with a string pattern: the first occurrence of
\* the pattern is replaced (the replacement holds no $ pattern)
replace(s, pattern, replacement) ==
  IF ~includes(s, pattern) THEN s
  ELSE LET at == CHOOSE i \in 1..(Len(s) - Len(pattern) + 1) :
                   /\ SubSeq(s, i, i + Len(pattern) - 1) = pattern
                   /\ \A j \in 1..(i - 1) : SubSeq(s, j, j + Len(pattern) - 1) # pattern
       IN SubSeq(s, 1, at - 1) \o replacement \o SubSeq(s, at + Len(pattern), Len(s))

\* mutant: the resource Unknown returned as it is
optimizeResourceArn_unknownKept(resource) ==
  IF resource = analyzerText.Unknown \/ resource = optimizerText.Star THEN resource
  ELSE IF includes(resource, optimizerText.S3) /\ ~includes(resource, optimizerText.SlashStar)
  THEN resource \o optimizerText.SlashStar
  ELSE IF includes(resource, optimizerText.Star)
  THEN IF includes(resource, optimizerText.Logs) /\ endsWith(resource, optimizerText.Star)
       THEN IF includes(resource, optimizerText.LogGroup) THEN resource
            ELSE replace(resource, optimizerText.Star, optimizerText.LogGroupStar)
       ELSE resource
  ELSE resource

optimizeResourceArn(resource) ==
  IF resource = analyzerText.Unknown \/ resource = optimizerText.Star THEN optimizerText.Star
  ELSE IF includes(resource, optimizerText.S3) /\ ~includes(resource, optimizerText.SlashStar)
  THEN resource \o optimizerText.SlashStar
  ELSE IF includes(resource, optimizerText.Star)
  THEN IF includes(resource, optimizerText.Logs) /\ endsWith(resource, optimizerText.Star)
       THEN IF includes(resource, optimizerText.LogGroup) THEN resource
            ELSE replace(resource, optimizerText.Star, optimizerText.LogGroupStar)
       ELSE resource
  ELSE resource

\* normalizeResource(resource), then normalizeResource of what it returned
NormalizeResource ==
  /\ pc = "call"
  /\ ret' = [of |-> "normalizeResource",
             once |-> normalizeResource(args.resource),
             twice |-> normalizeResource(normalizeResource(args.resource))]
  /\ pc' = "returned"
  /\ UNCHANGED <<analyzerVars, args, logsVars, policyVars, stackVars>>

\* optimizeResourceArn(resource), then optimizeResourceArn of what it returned
OptimizeResourceArn ==
  /\ pc = "call"
  /\ ret' = [of |-> "optimizeResourceArn",
             once |-> optimizeResourceArn(args.resource),
             twice |-> optimizeResourceArn(optimizeResourceArn(args.resource))]
  /\ pc' = "returned"
  /\ UNCHANGED <<analyzerVars, args, logsVars, policyVars, stackVars>>

---------------------------------------------------------------------------
(* Resources given to normalizeResource and optimizeResourceArn *)

MaxFragments == 4

resourceText ==
  [ Colon |-> <<":">>,
    Name |-> <<"b">> ]

\* the parts the resources are put together from
Fragments ==
  {analyzerText.ArnAws, optimizerText.S3, optimizerText.Logs, optimizerText.LogGroup, optimizerText.Star,
   analyzerText.Slash, resourceText.Colon, resourceText.Name}

RECURSIVE concat(_)
concat(parts) == IF parts = <<>> THEN <<>> ELSE Head(parts) \o concat(Tail(parts))

\* Unknown, and every text of at most maxFragments fragments
ResourceChoices(maxFragments) ==
  {analyzerText.Unknown} \cup UNION {{concat(parts) : parts \in seqsOfLen(Fragments, n)} : n \in 0..maxFragments}

InitResource ==
  /\ args \in [resource : ResourceChoices(MaxFragments)]
  /\ ret = <<>>
  /\ pc = "call"
  /\ logAnalysisResults = <<>>
  /\ permissionMap = <<>>
  /\ ri = 1
  /\ di = 1
  /\ suggestions = <<>>
  /\ clock = 0
  /\ noLogGroups
  /\ noPolicy
  /\ noStack

NextResource == NormalizeResource \/ OptimizeResourceArn

SpecResource == InitResource /\ [][NextResource]_vars

---------------------------------------------------------------------------
(* PermissionAnalyzerService: generateIAMPolicy *)

\* string literals of generateIAMPolicy and of the permissions given to it
policyText ==
  [ Colon |-> <<":">>,
    S3GetObject |-> <<"s","3",":","G","e","t","O","b","j","e","c","t">>,
    S3PutObject |-> <<"s","3",":","P","u","t","O","b","j","e","c","t">>,
    Bucket |-> <<"a","r","n",":","a","w","s",":","s","3",":",":",":","b","1">>,
    BucketObjects |-> <<"a","r","n",":","a","w","s",":","s","3",":",":",":","b","2","/","*">>,
    Bool |-> <<"B","o","o","l">>,
    MultiFactorAuthPresent |-> <<"a","w","s",":","M","u","l","t","i","F","a","c","t","o","r","A","u","t","h","P","r","e","s","e","n","t">>,
    True |-> <<"t","r","u","e">> ]

\* the characters U+0020 to U+007E in the order of their code units (the
\* grave accent, which no string of the model holds, by its name)
asciiChars ==
  <<" ","!","\"","#","$","%","&","'","(",")","*","+",",","-",".","/","0","1","2","3","4","5","6","7",
     "8","9",":",";","<","=",">","?","@","A","B","C","D","E","F","G","H","I","J","K","L","M","N","O",
     "P","Q","R","S","T","U","V","W","X","Y","Z","[","\\","]","^","_","U+0060","a","b","c","d","e","f","g",
     "h","i","j","k","l","m","n","o","p","q","r","s","t","u","v","w","x","y","z","{","|","}","~">>

codeUnit(c) == 31 + (CHOOSE i \in 1..Len(asciiChars) : asciiChars[i] = c)

\* a < b in the order of Array.prototype.sort without comparator, which
\* compares strings by their UTF-16 code units
sortsBefore(a, b) ==
  \E i \in 1..(Len(a) + 1) :
    /\ i <= Len(b)
    /\ SubSeq(a, 1, i - 1) = SubSeq(b, 1, i - 1)
    /\ i = Len(a) + 1 \/ codeUnit(a[i]) < codeUnit(b[i])

\* Array.from(set).sort() for a Set of strings
RECURSIVE sortStrings(_)
sortStrings(list) ==
  IF list = <<>> THEN <<>>
  ELSE LET least == CHOOSE i \in 1..Len(list) : \A j \in 1..Len(list) : ~sortsBefore(list[j], list[i])
       IN <<list[least]>> \o sortStrings(SubSeq(list, 1, least - 1) \o SubSeq(list, least + 1, Len(list)))

\* Set.prototype.add on a Set kept as its elements in insertion order
addToSet(set, x) == IF \E i \in 1..Len(set) : set[i] = x THEN set ELSE Append(set, x)

\* mutant: every permission never observed is dropped, whatever its severity
isExcluded_frequencyOnly(permission) == permission.frequency = 0

\* permission.frequency === 0 && permission.severity === 'Low'
isExcluded(permission) == permission.frequency = 0 /\ permission.severity = "Low"

\* JSON.stringify(permission.condition || {}), the condition being <<>> when absent
conditionKey(permission) ==
  stringify(IF permission.condition # <<>> THEN permission.condition[1] ELSE Obj(<<>>))

\* mutant: the statements keyed by the serialized condition alone
statementKey_conditionOnly(permission) == conditionKey(permission)

\* mutant: the statements keyed by the resource alone
statementKey_resourceOnly(permission) == permission.resource

statementKey(permission) == permission.resource \o policyText.Colon \o conditionKey(permission)

\* mutant: the resource of a statement passed through optimizeResourceArn
statementResource_optimized(permission) == optimizeResourceArn(permission.resource)

\* the resource a permission adds to its statement
statementResource(permission) == permission.resource

\* one iteration of the loop of generateIAMPolicy
addPermission(map, permission) ==
  IF isExcluded(permission) THEN map
  ELSE IF mapHas(map, statementKey(permission))
  THEN [i \in 1..Len(map) |->
          IF map[i].key = statementKey(permission)
          THEN [map[i] EXCEPT !.actions = addToSet(@, permission.action),
                              !.resources = addToSet(@, statementResource(permission))]
          ELSE map[i]]
  ELSE Append(map, [key |-> statementKey(permission),
                    actions |-> <<permission.action>>,
                    resources |-> <<statementResource(permission)>>,
                    condition |-> permission.condition])

\* mutant: the statements made without their Condition
toStatement_conditionDropped(statement) ==
  [Effect |-> "Allow",
   Action |-> sortStrings(statement.actions),
   Resource |-> sortStrings(statement.resources),
   Condition |-> <<>>]

\* the statement of the policy made from an entry of the Map
toStatement(statement) ==
  [Effect |-> "Allow",
   Action |-> sortStrings(statement.actions),
   Resource |-> sortStrings(statement.resources),
   Condition |-> IF statement.condition # <<>> /\ Len(statement.condition[1].c) > 0
                 THEN statement.condition ELSE <<>>]

\* one iteration of the loop over the permissions
AddPermission ==
  /\ pc = "policy"
  /\ pi <= Len(args.permissions)
  /\ statementMap' = addPermission(statementMap, args.permissions[pi])
  /\ pi' = pi + 1
  /\ UNCHANGED <<analyzerVars, pc, args, ret, logsVars, stackVars, cdkStatements>>

\* the conversion of the Map to the policy, and the return
ReturnPolicy ==
  /\ pc = "policy"
  /\ pi > Len(args.permissions)
  /\ ret' = [Version |-> "2012-10-17",
             Statement |-> [i \in 1..Len(statementMap) |-> toStatement(statementMap[i])]]
  /\ pc' = "returned"
  /\ UNCHANGED <<analyzerVars, args, logsVars, policyVars, stackVars>>

---------------------------------------------------------------------------
(* PermissionAnalyzerService: generateCDKCode *)

\* string literals of groupPermissionsByService and getResourcePattern
cdkText ==
  [ unknown |-> <<"u","n","k","n","o","w","n">>,
    S3Arn |-> <<"a","r","n",":","a","w","s",":","s","3",":",":",":">>,
    DynamoDBArn |-> <<"a","r","n",":","a","w","s",":","d","y","n","a","m","o","d","b",":">>,
    LambdaArn |-> <<"a","r","n",":","a","w","s",":","l","a","m","b","d","a",":">>,
    LogsArn |-> <<"a","r","n",":","a","w","s",":","l","o","g","s",":">>,
    IamArn |-> <<"a","r","n",":","a","w","s",":","i","a","m",":">>,
    SsmArn |-> <<"a","r","n",":","a","w","s",":","s","s","m",":">>,
    SecretsManagerArn |-> <<"a","r","n",":","a","w","s",":","s","e","c","r","e","t","s","m","a","n","a","g","e","r",":">>,
    KmsArn |-> <<"a","r","n",":","a","w","s",":","k","m","s",":">>,
    S3 |-> <<"S","3"," ","B","u","c","k","e","t"," ","A","c","c","e","s","s">>,
    DynamoDB |-> <<"D","y","n","a","m","o","D","B"," ","T","a","b","l","e"," ","A","c","c","e","s","s">>,
    Lambda |-> <<"L","a","m","b","d","a"," ","F","u","n","c","t","i","o","n"," ","A","c","c","e","s","s">>,
    Logs |-> <<"C","l","o","u","d","W","a","t","c","h"," ","L","o","g","s"," ","A","c","c","e","s","s">>,
    Iam |-> <<"I","A","M"," ","A","c","c","e","s","s">>,
    Ssm |-> <<"S","y","s","t","e","m","s"," ","M","a","n","a","g","e","r"," ","A","c","c","e","s","s">>,
    SecretsManager |-> <<"S","e","c","r","e","t","s"," ","M","a","n","a","g","e","r"," ","A","c","c","e","s","s">>,
    Kms |-> <<"K","M","S"," ","A","c","c","e","s","s">>,
    General |-> <<"G","e","n","e","r","a","l"," ","A","W","S"," ","A","c","c","e","s","s">> ]

\* permissions.filter(p => p.frequency > 0 || p.severity === 'Critical' || p.severity === 'High')
relevantPermissions(permissions) ==
  LET kept[i \in 0..Len(permissions)] ==
        IF i = 0 THEN <<>>
        ELSE IF permissions[i].frequency > 0 \/ permissions[i].severity = "Critical"
                \/ permissions[i].severity = "High"
        THEN Append(kept[i - 1], permissions[i]) ELSE kept[i - 1]
  IN kept[Len(permissions)]

\* permission.action.split(':')[0] || 'unknown'
serviceOf(action) ==
  CHOOSE service \in
    {IF head = <<>> THEN cdkText.unknown ELSE head :
     head \in {SubSeq(action, 1,
                      (CHOOSE i \in 1..(Len(action) + 1) :
                         /\ i = Len(action) + 1 \/ action[i] = ":"
                         /\ \A j \in 1..(i - 1) : action[j] # ":") - 1)}} : TRUE

getResourcePattern(resource) ==
  IF includes(resource, cdkText.S3Arn) THEN cdkText.S3
  ELSE IF includes(resource, cdkText.DynamoDBArn) THEN cdkText.DynamoDB
  ELSE IF includes(resource, cdkText.LambdaArn) THEN cdkText.Lambda
  ELSE IF includes(resource, cdkText.LogsArn) THEN cdkText.Logs
  ELSE IF includes(resource, cdkText.IamArn) THEN cdkText.Iam
  ELSE IF includes(resource, cdkText.SsmArn) THEN cdkText.Ssm
  ELSE IF includes(resource, cdkText.SecretsManagerArn) THEN cdkText.SecretsManager
  ELSE IF includes(resource, cdkText.KmsArn) THEN cdkText.Kms
  ELSE cdkText.General

\* the entries of a list whose key, given at the same place of keys, is k
withKey(list, keys, k) ==
  LET members[i \in 0..Len(list)] ==
        IF i = 0 THEN <<>>
        ELSE IF keys[i] = k THEN Append(members[i - 1], list[i]) ELSE members[i - 1]
  IN members[Len(list)]

\* groupPermissionsByService: the Map as its entries in insertion order
groupPermissionsByService(permissions) ==
  LET service == [i \in 1..Len(permissions) |-> serviceOf(permissions[i].action)]
      services == uniqueOf(service)
  IN [s \in 1..Len(services) |->
        [service |-> services[s], permissions |-> withKey(permissions, service, services[s])]]

\* groupStatementsByResource: the Map as its entries in insertion order; the
\* Set of conditions holds objects, and each permission has its own
groupStatementsByResource(permissions) ==
  LET resourceKey == [i \in 1..Len(permissions) |-> getResourcePattern(permissions[i].resource)]
      keys == uniqueOf(resourceKey)
  IN [k \in 1..Len(keys) |->
        LET members == withKey(permissions, resourceKey, keys[k])
            conditional == SelectSeq(members, LAMBDA p : p.condition # <<>>)
        IN [resourcePattern |-> keys[k],
            actions |-> uniqueOf([i \in 1..Len(members) |-> members[i].action]),
            resources |-> uniqueOf([i \in 1..Len(members) |-> members[i].resource]),
            conditions |-> [c \in 1..Len(conditional) |-> conditional[c].condition[1]]]]

\* the policy statements of the code generateCDKCode writes for one role:
\* the actions sorted when there are several, the resources optimized and sorted
roleStatements(service, permissions) ==
  LET groups == groupStatementsByResource(permissions)
  IN [g \in 1..Len(groups) |->
        [service |-> service,
         resourcePattern |-> groups[g].resourcePattern,
         actions |-> IF Len(groups[g].actions) = 1 THEN groups[g].actions ELSE sortStrings(groups[g].actions),
         resources |-> sortStrings([r \in 1..Len(groups[g].resources) |-> optimizeResourceArn(groups[g].resources[r])]),
         conditions |-> groups[g].conditions]]

\* the policy statements of the code generateCDKCode returns, role after
\* role; none when no permission is relevant
generateCDKCode(permissions) ==
  LET roles == groupPermissionsByService(relevantPermissions(permissions))
      statements[r \in 0..Len(roles)] ==
        IF r = 0 THEN <<>>
        ELSE statements[r - 1] \o roleStatements(roles[r].service, roles[r].permissions)
  IN statements[Len(roles)]

\* generateCDKCode for the permissions generateIAMPolicy was given
GenerateCDKCode ==
  /\ pc = "returned"
  /\ cdkStatements' = generateCDKCode(args.permissions)
  /\ pc' = "generated"
  /\ UNCHANGED <<analyzerVars, args, ret, logsVars, statementMap, pi, stackVars>>

---------------------------------------------------------------------------
(* Permissions given to generateIAMPolicy *)

MaxPermissions == 2

\* no condition, an empty condition, and the condition that requires MFA
PolicyConditions ==
  { <<>>,
    <<Obj(<<>>)>>,
    <<Obj(<<member(policyText.Bool, Obj(<<member(policyText.MultiFactorAuthPresent, Str(policyText.True))>>))>>)>> }

\* a bucket and the objects of another bucket; s3:GetObject never observed
\* with severity Low and Medium and observed with severity Low, s3:PutObject
\* never observed with severity High and observed with severity Low
PolicyPermissions ==
  { [action |-> rated[1], resource |-> resource, effect |-> "Allow", condition |-> condition,
     frequency |-> rated[2], severity |-> rated[3]] :
    rated \in {<<policyText.S3GetObject, 0, "Low">>, <<policyText.S3GetObject, 0, "Medium">>,
               <<policyText.S3GetObject, 3, "Low">>, <<policyText.S3PutObject, 0, "High">>,
               <<policyText.S3PutObject, 3, "Low">>},
    resource \in {policyText.Bucket, policyText.BucketObjects},
    condition \in PolicyConditions }

InitPolicy ==
  /\ \E n \in 0..MaxPermissions : args \in [permissions : seqsOfLen(PolicyPermissions, n)]
  /\ ret = <<>>
  /\ pc = "policy"
  /\ logAnalysisResults = <<>>
  /\ permissionMap = <<>>
  /\ ri = 1
  /\ di = 1
  /\ suggestions = <<>>
  /\ clock = 0
  /\ noLogGroups
  /\ noPolicy
  /\ noStack

NextPolicy == AddPermission \/ ReturnPolicy \/ GenerateCDKCode

SpecPolicy == InitPolicy /\ [][NextPolicy]_vars

---------------------------------------------------------------------------
(* PermissionAnalyzerService: generateConditions as analyzeLogs calls it *)

\* the action and the resource of a denial are normalized when the denial is
\* aggregated; generateConditions is given the normalized texts
GenerateConditions ==
  /\ pc = "call"
  /\ \E action \in {normalizeAction(args.action)}, resource \in {normalizeResource(args.resource)} :
       ret' = [action |-> action,
               resource |-> resource,
               conditions |-> generateConditions(action, resource, clock)]
  /\ pc' = "returned"
  /\ UNCHANGED <<analyzerVars, args, logsVars, policyVars, stackVars>>

conditionsText ==
  [ S3DeleteObject |-> <<"s","3",":","D","e","l","e","t","e","O","b","j","e","c","t">>,
    S3PutObject |-> <<"s","3",":","P","u","t","O","b","j","e","c","t">>,
    IamCreateRole |-> <<"i","a","m",":","C","r","e","a","t","e","R","o","l","e">>,
    IamPassRole |-> <<"I","A","M",":","P","a","s","s","R","o","l","e">>,
    S3GetObject |-> <<"s","3",":","G","e","t","O","b","j","e","c","t">>,
    SsoAdminList |-> <<"s","s","o","-","a","d","m","i","n",":","L","i","s","t","I","n","s","t","a","n","c","e","s">>,
    Ec2Describe |-> <<"e","c","2",":","D","e","s","c","r","i","b","e","I","n","s","t","a","n","c","e","s">>,
    ApiGateway |-> <<"a","r","n",":","a","w","s",":","a","p","i","g","a","t","e","w","a","y",":","r","1">>,
    PublicBucket |-> <<"a","r","n",":","a","w","s",":","s","3",":",":",":","p","u","b","l","i","c","-","b","1">>,
    PrivateBucket |-> <<"a","r","n",":","a","w","s",":","s","3",":",":",":","b","1">>,
    PublicApiPath |-> <<"s","t","a","g","e","/","P","u","b","l","i","c","A","p","i">>,
    ApiPath |-> <<"s","t","a","g","e","/","a","p","i">> ]

\* actions as the log records spell them, and the empty action
ConditionActions ==
  {conditionsText.S3DeleteObject, conditionsText.S3PutObject, conditionsText.IamCreateRole,
   conditionsText.IamPassRole, conditionsText.S3GetObject, conditionsText.SsoAdminList,
   conditionsText.Ec2Describe, <<>>}

ConditionResources ==
  {conditionsText.ApiGateway, conditionsText.PublicBucket, conditionsText.PrivateBucket,
   conditionsText.PublicApiPath, conditionsText.ApiPath, analyzerText.Unknown}

InitConditions ==
  /\ args \in [action : ConditionActions, resource : ConditionResources]
  /\ ret = <<>>
  /\ pc = "call"
  /\ logAnalysisResults = <<>>
  /\ permissionMap = <<>>
  /\ ri = 1
  /\ di = 1
  /\ suggestions = <<>>
  /\ clock \in 0..MaxClockAdvance
  /\ noLogGroups
  /\ noPolicy
  /\ noStack

SpecConditions == InitConditions /\ [][GenerateConditions]_vars

---------------------------------------------------------------------------
(* CloudFormationService: getStackLogGroups *)

stackText ==
  [ LogGroupType |-> <<"A","W","S",":",":","L","o","g","s",":",":","L","o","g","G","r","o","u","p">>,
    LambdaType |-> <<"A","W","S",":",":","L","a","m","b","d","a",":",":","F","u","n","c","t","i","o","n">>,
    unknown |-> <<"u","n","k","n","o","w","n">>,
    LogGroupId |-> <<"L","g">>,
    FunctionId |-> <<"F","n">>,
    FunctionName |-> <<"f","1">>,
    CustomLogGroup |-> <<"/","c","u","s","t","o","m","/","l","g","1">>,
    LambdaLogGroup |-> <<"/","a","w","s","/","l","a","m","b","d","a","/","f","1">>,
    ApiLogGroup |-> <<"/","a","w","s","/","a","p","i","g","a","t","e","w","a","y","/","a","1">>,
    TrailLogGroup |-> <<"/","a","w","s","/","c","l","o","u","d","t","r","a","i","l","/","t","1">>,
    AwsPrefix |-> <<"/","a","w","s","/">>,
    LambdaPrefix |-> <<"/","a","w","s","/","l","a","m","b","d","a","/">>,
    AwsPattern |-> <<"/","a","w","s","/",".","*">>,
    LambdaPattern |-> <<"/","a","w","s","/","l","a","m","b","d","a","/",".","*">>,
    Unterminated |-> <<"(">> ]

\* getStackResources: the resources DescribeStackResources lists, a resource
\* without PhysicalResourceId getting the physical id 'unknown'
getStackResources(stackResourceList) ==
  [i \in 1..Len(stackResourceList) |->
     [logicalId |-> stackResourceList[i].logicalId,
      physicalId |-> IF stackResourceList[i].physicalId # <<>>
                     THEN stackResourceList[i].physicalId[1] ELSE stackText.unknown,
      resourceType |-> stackResourceList[i].resourceType]]

\* resources.find(r => r.logicalId === logicalId)
findResource(resources, logicalId) ==
  IF \A i \in 1..Len(resources) : resources[i].logicalId # logicalId THEN <<>>
  ELSE <<resources[CHOOSE i \in 1..Len(resources) :
                     resources[i].logicalId = logicalId /\ \A j \in 1..(i - 1) : resources[j].logicalId # logicalId]>>

\* the name an AWS::Logs::LogGroup entry of the template contributes: the
\* physical id of its resource, else the LogGroupName of the template, else none
explicitName(entry, resources) ==
  CHOOSE names \in
    {IF physicalResource # <<>> /\ physicalResource[1].physicalId # <<>>
        /\ physicalResource[1].physicalId # stackText.unknown
     THEN <<physicalResource[1].physicalId>>
     ELSE IF entry.LogGroupName # <<>> /\ entry.LogGroupName[1] # <<>> THEN <<entry.LogGroupName[1]>>
     ELSE <<>> :
     physicalResource \in {findResource(resources, entry.logicalId)}} : TRUE

\* the loop over template.Resources that collects the explicit log groups
explicitLogGroups(template, resources) ==
  LET names[i \in 0..Len(template)] ==
        IF i = 0 THEN <<>>
        ELSE IF template[i].Type = stackText.LogGroupType
        THEN names[i - 1] \o explicitName(template[i], resources) ELSE names[i - 1]
  IN names[Len(template)]

\* /^[a-zA-Z0-9\-_\/]+$/, which holds every text the two patterns before it match
isLogGroupValue(value) ==
  value # <<>> /\ \A i \in 1..Len(value) : isAlnum(value[i]) \/ value[i] \in {"-", "_", "/"}

\* extractLogGroupReferencesFromResource: LoggingConfig.LogGroup of a Lambda
\* function; for a type without a case of its own, the values of the keys
\* that name a log group, which for the entries of the model is LogGroupName
extractLogGroupReferencesFromResource(entry) ==
  IF entry.Type = stackText.LambdaType
  THEN (IF entry.LoggingConfigLogGroup # <<>> /\ entry.LoggingConfigLogGroup[1] # <<>>
        THEN <<entry.LoggingConfigLogGroup[1]>> ELSE <<>>)
  ELSE IF entry.LogGroupName # <<>> /\ isLogGroupValue(entry.LogGroupName[1])
  THEN <<entry.LogGroupName[1]>>
  ELSE <<>>

extractLogGroupsFromTemplate(template, resources) ==
  LET referenced[i \in 0..Len(template)] ==
        IF i = 0 THEN <<>>
        ELSE referenced[i - 1] \o extractLogGroupReferencesFromResource(template[i])
  IN uniqueOf(explicitLogGroups(template, resources) \o referenced[Len(template)])

\* keep the entries of list that are not in excluded
without(list, excluded) ==
  LET kept[i \in 0..Len(list)] ==
        IF i = 0 THEN <<>>
        ELSE IF \E j \in 1..Len(excluded) : excluded[j] = list[i] THEN kept[i - 1]
        ELSE Append(kept[i - 1], list[i])
  IN kept[Len(list)]

\* getStackLogGroups, given what getStackTemplate returned: <<>> for null,
\* <<entries>> for a template with the entries of its Resources
getStackLogGroups(stackResourceList, template) ==
  IF template = <<>> THEN [explicit |-> <<>>, referenced |-> <<>>, all |-> <<>>]
  ELSE CHOOSE found \in
         {[explicit |-> explicit,
           referenced |-> without(extractLogGroupsFromTemplate(template[1], getStackResources(stackResourceList)), explicit),
           all |-> uniqueOf(explicit \o without(extractLogGroupsFromTemplate(template[1], getStackResources(stackResourceList)), explicit))] :
          explicit \in {explicitLogGroups(template[1], getStackResources(stackResourceList))}} : TRUE

---------------------------------------------------------------------------
(* StackAnalyzerService: analyzeStack up to the call of analyzeLogGroups *)

\* allLogGroups.add(logGroup) for every log group of a list
addAll(set, list) ==
  LET added[i \in 0..Len(list)] == IF i = 0 THEN set ELSE addToSet(added[i - 1], list[i])
  IN added[Len(list)]

\* patterns.some(pattern => new RegExp(pattern).test(logGroup)): "yes", "no",
\* or "throw" when the constructor throws SyntaxError before a pattern matched
RECURSIVE somePattern(_, _)
somePattern(patterns, logGroup) ==
  IF patterns = <<>> THEN "no"
  ELSE IF Head(patterns).regex = <<>> THEN "throw"
  ELSE IF test(Head(patterns).regex[1], logGroup) THEN "yes"
  ELSE somePattern(Tail(patterns), logGroup)

\* Array.prototype.filter with patterns.some as the predicate, or its negation
filterBy(logGroups, patterns, keep) ==
  LET verdict == [i \in 1..Len(logGroups) |-> somePattern(patterns, logGroups[i])]
      kept[i \in 0..Len(logGroups)] ==
        IF i = 0 THEN <<>>
        ELSE IF verdict[i] = keep THEN Append(kept[i - 1], logGroups[i]) ELSE kept[i - 1]
  IN IF \E i \in 1..Len(logGroups) : verdict[i] = "throw"
     THEN [threw |-> TRUE, logGroups |-> <<>>]
     ELSE [threw |-> FALSE, logGroups |-> kept[Len(logGroups)]]

\* mutant: the exclude patterns applied only when no include pattern is configured
applyPatterns_includeWins(logGroups, config) ==
  IF config.includePatterns # <<>> THEN filterBy(logGroups, config.includePatterns, "yes")
  ELSE IF config.excludePatterns # <<>> THEN filterBy(logGroups, config.excludePatterns, "no")
  ELSE [threw |-> FALSE, logGroups |-> logGroups]

\* the include filter and then the exclude filter
applyPatterns(logGroups, config) ==
  CHOOSE filtered \in
    {IF included.threw \/ config.excludePatterns = <<>> THEN included
     ELSE filterBy(included.logGroups, config.excludePatterns, "no") :
     included \in {IF config.includePatterns # <<>>
                   THEN filterBy(logGroups, config.includePatterns, "yes")
                   ELSE [threw |-> FALSE, logGroups |-> logGroups]}} : TRUE

\* 2a: the log groups of the stack
CollectStackLogGroups ==
  /\ pc = "collect"
  /\ allLogGroups' = addAll(allLogGroups, getStackLogGroups(args.stackResources, args.template).all)
  /\ pc' = "discover"
  /\ UNCHANGED <<analyzerVars, args, ret, logsVars, policyVars>>

\* 2a2: the stack-related log groups, if their discovery is configured; a
\* failed discovery is reported and passed over
DiscoverStackRelated ==
  /\ pc = "discover"
  /\ allLogGroups' = IF args.config.discoverStackRelated /\ args.stackRelated.ok
                     THEN addAll(allLogGroups, args.stackRelated.logGroups) ELSE allLogGroups
  /\ pc' = "external"
  /\ UNCHANGED <<analyzerVars, args, ret, logsVars, policyVars>>

\* 2b: the external log groups of the configuration
AddExternalLogGroups ==
  /\ pc = "external"
  /\ allLogGroups' = addAll(allLogGroups, args.config.externalLogGroups)
  /\ pc' = "cloudTrail"
  /\ UNCHANGED <<analyzerVars, args, ret, logsVars, policyVars>>

\* 2c: the CloudTrail log groups, if configured; a failed discovery is
\* reported and passed over
AddCloudTrailLogGroups ==
  /\ pc = "cloudTrail"
  /\ allLogGroups' = IF args.config.includeCloudTrail /\ args.cloudTrail.ok
                     THEN addAll(allLogGroups, args.cloudTrail.logGroups) ELSE allLogGroups
  /\ pc' = "filter"
  /\ UNCHANGED <<analyzerVars, args, ret, logsVars, policyVars>>

\* the include and exclude patterns, and the call of analyzeLogGroups with
\* the log groups they leave; a SyntaxError of new RegExp leaves analyzeStack
FilterLogGroups ==
  /\ pc = "filter"
  /\ \E filtered \in {applyPatterns(allLogGroups, args.config)} :
       IF filtered.threw
       THEN /\ pc' = "threw"
            /\ UNCHANGED logGroupNames
       ELSE /\ pc' = "called"
            /\ logGroupNames' = filtered.logGroups
  /\ UNCHANGED <<analyzerVars, args, ret, rolePatterns, cloudwatch, validLogGroups, nonExistentLogGroups,
                 results, vi, errorLog, policyVars, stackVars>>

---------------------------------------------------------------------------
(* Stacks, configurations and discovery answers given to analyzeStack *)

stackResource(logicalId, physicalId, resourceType) ==
  [logicalId |-> logicalId, physicalId |-> physicalId, resourceType |-> resourceType]

templateEntry(logicalId, type, logGroupName, loggingConfigLogGroup) ==
  [logicalId |-> logicalId, Type |-> type, LogGroupName |-> logGroupName,
   LoggingConfigLogGroup |-> loggingConfigLogGroup]

\* a stack of a log group and a function; the log group with or without a
\* physical id
StackResourceLists ==
  {<<stackResource(stackText.LogGroupId, physicalId, stackText.LogGroupType),
     stackResource(stackText.FunctionId, <<stackText.FunctionName>>, stackText.LambdaType)>> :
   physicalId \in {<<>>, <<stackText.CustomLogGroup>>}}

\* what getStackTemplate returns for that stack: null, or the template, the
\* log group with or without LogGroupName and the function with or without
\* LoggingConfig.LogGroup
Templates ==
  {<<>>} \cup
  {<< <<templateEntry(stackText.LogGroupId, stackText.LogGroupType, logGroupName, <<>>),
        templateEntry(stackText.FunctionId, stackText.LambdaType, <<>>, loggingConfigLogGroup)>> >> :
   logGroupName \in {<<>>, <<stackText.CustomLogGroup>>},
   loggingConfigLogGroup \in {<<>>, <<stackText.LambdaLogGroup>>}}

pattern(source, regex) == [source |-> source, regex |-> regex]

\* the patterns of the model with the regular expressions new RegExp makes of
\* them, <<>> where it throws SyntaxError
awsPattern ==
  pattern(stackText.AwsPattern, <<RegExp(<<Lit(stackText.AwsPrefix), Rep("dot", 0)>>, 1, 2, FALSE)>>)

lambdaPattern ==
  pattern(stackText.LambdaPattern, <<RegExp(<<Lit(stackText.LambdaPrefix), Rep("dot", 0)>>, 1, 2, FALSE)>>)

unterminatedPattern == pattern(stackText.Unterminated, <<>>)

Configs ==
  [discoverStackRelated : BOOLEAN,
   externalLogGroups : {<<>>, <<stackText.ApiLogGroup>>},
   includeCloudTrail : BOOLEAN,
   includePatterns : {<<>>, <<awsPattern>>, <<lambdaPattern, unterminatedPattern>>},
   excludePatterns : {<<>>, <<lambdaPattern>>, <<unterminatedPattern>>}]

\* the answer of a discovery: it fails, or it finds log groups
discovery(logGroups) == [ok |-> TRUE, logGroups |-> logGroups]
discoveryFails == [ok |-> FALSE, logGroups |-> <<>>]

InitStack ==
  /\ args \in [stackResources : StackResourceLists,
               template : Templates,
               config : Configs,
               stackRelated : {discoveryFails, discovery(<<stackText.LambdaLogGroup>>)},
               cloudTrail : {discoveryFails, discovery(<<stackText.TrailLogGroup>>)}]
  /\ ret = <<>>
  /\ pc = "collect"
  /\ logAnalysisResults = <<>>
  /\ permissionMap = <<>>
  /\ ri = 1
  /\ di = 1
  /\ suggestions = <<>>
  /\ clock = 0
  /\ noLogGroups
  /\ noPolicy
  /\ noStack

NextStack ==
  \/ CollectStackLogGroups
  \/ DiscoverStackRelated
  \/ AddExternalLogGroups
  \/ AddCloudTrailLogGroups
  \/ FilterLogGroups

SpecStack == InitStack /\ [][NextStack]_vars

---------------------------------------------------------------------------
(* Claims about generateIAMPolicy *)

\* the elements of a list
elementsOf(list) == {list[i] : i \in 1..Len(list)}

\* the permissions of the input that have been observed or are rated above Low
retainedPermissions ==
  {i \in 1..Len(args.permissions) : args.permissions[i].frequency # 0 \/ args.permissions[i].severity # "Low"}

\* the statements of the returned policy that list the action and the
\* resource of permission i
statementsListing(i) ==
  {k \in 1..Len(ret.Statement) :
     /\ args.permissions[i].action \in elementsOf(ret.Statement[k].Action)
     /\ args.permissions[i].resource \in elementsOf(ret.Statement[k].Resource)}

C12_NoInventedGrants ==
  pc = "returned" =>
    \A k \in 1..Len(ret.Statement) :
      /\ \A action \in elementsOf(ret.Statement[k].Action) :
           \E i \in 1..Len(args.permissions) : args.permissions[i].action = action
      /\ \A resource \in elementsOf(ret.Statement[k].Resource) :
           \E i \in 1..Len(args.permissions) : args.permissions[i].resource = resource

\* a policy returned with a statement for a bucket named without its objects
C12_BucketGranted ==
  /\ pc = "returned"
  /\ \E k \in 1..Len(ret.Statement) : policyText.Bucket \in elementsOf(ret.Statement[k].Resource)

\* the pair of the resource and the serialized condition of permission i
groupingPair(i) == <<args.permissions[i].resource, conditionKey(args.permissions[i])>>

\* the statements of the returned policy that list the action and the
\* resource of permission i under the condition of permission i
statementsGrouping(i) ==
  {k \in statementsListing(i) : conditionKey([condition |-> ret.Statement[k].Condition]) = conditionKey(args.permissions[i])}

\* C13: the returned policy has exactly one statement per distinct pair
\* (resource, serialized condition or empty) of the retained permissions:
\* every retained permission is listed by exactly one statement, and two
\* retained permissions are listed by the same statement if and only if
\* they share that pair.
C13_OneStatementPerResourceAndCondition ==
  pc = "returned" =>
    /\ Len(ret.Statement) = Cardinality({groupingPair(i) : i \in retainedPermissions})
    /\ \A i \in retainedPermissions : Cardinality(statementsGrouping(i)) = 1
    /\ \A i \in retainedPermissions : \A j \in retainedPermissions :
         groupingPair(i) = groupingPair(j) <=> statementsGrouping(i) = statementsGrouping(j)

\* a policy returned with one statement for two permissions of different actions
C13_DifferentActionsMerged ==
  /\ pc = "returned"
  /\ \E k \in 1..Len(ret.Statement) : Len(ret.Statement[k].Action) = 2

\* C14: every resource listed in a statement of the returned policy is
\* optimizeResourceArn(r) for the resource r of a permission of the input.
C14_EmittedResourcesOptimized ==
  pc = "returned" =>
    \A k \in 1..Len(ret.Statement) :
      \A resource \in elementsOf(ret.Statement[k].Resource) :
        \E i \in 1..Len(args.permissions) : resource = optimizeResourceArn(args.permissions[i].resource)

---------------------------------------------------------------------------
(* Claims about optimizeResourceArn and normalizeResource *)

\* optimizeResourceArn has returned for args.resource
optimized == pc = "returned" /\ ret.of = "optimizeResourceArn"

\* normalizeResource has returned for args.resource
normalized == pc = "returned" /\ ret.of = "normalizeResource"

\* C15: optimizeResourceArn is idempotent: optimizing an optimized resource
\* gives the optimized resource again, for every resource string.
C15_OptimizeIdempotent ==
  optimized => ret.twice = ret.once

bareLogsWildcard(resource) ==
  /\ startsWith(resource, optimizerText.Logs)
  /\ endsWith(resource, optimizerText.Star)
  /\ ~includes(resource, optimizerText.LogGroup)
  /\ ~includes(resource, optimizerText.S3)

\* C17: for a CloudWatch Logs ARN that ends in a bare wildcard and has no
\* log-group qualifier, optimizeResourceArn returns the input with its trailing
\* "*" replaced by "log-group:*" and every other character unchanged, also when
\* there are wildcards earlier in the ARN.
C17_TrailingWildcardScoped ==
  (optimized /\ bareLogsWildcard(args.resource))
    => ret.once = SubSeq(args.resource, 1, Len(args.resource) - 1) \o optimizerText.LogGroupStar

\* an S3 ARN that names a bucket and an object key in it, without a wildcard
s3ObjectArn(resource) ==
  /\ startsWith(resource, optimizerText.S3 \o resourceText.Name)
  /\ ~endsWith(resource, analyzerText.Slash)
  /\ includes(SubSeq(resource, Len(optimizerText.S3) + 1, Len(resource)), analyzerText.Slash)
  /\ ~includes(resource, optimizerText.Star)
  /\ ~includes(resource, optimizerText.Logs)

\* C18: optimizeResourceArn appends "/*" only to S3 ARNs that name a bucket
\* without an object-level part; an S3 ARN that already names an object key is
\* returned unchanged.
C18_ObjectKeyArnUnchanged ==
  (optimized /\ s3ObjectArn(args.resource)) => ret.once = args.resource

\* C19: normalizeResource is idempotent: normalizing a normalized resource
\* gives the normalized resource again, for every resource string.
C19_NormalizeIdempotent ==
  normalized => ret.twice = ret.once

\* a resource with a path separator has been rewritten to the wildcard ARN form
C19_PathRewritten ==
  /\ normalized
  /\ ret.once = analyzerText.ArnWildcardPrefix \o args.resource
  /\ includes(args.resource, analyzerText.Slash)

---------------------------------------------------------------------------
(* Claims about generateConditions *)

\* the entries of the returned map with the key k
entriesOf(k) == {i \in 1..Len(ret.conditions) : ret.conditions[i].k = k}

temporalRule ==
  \E word \in {analyzerText.Delete, analyzerText.Put, analyzerText.Create} :
    includes(toLowerCase(ret.action), word)

sourceIpRule ==
  \E word \in {analyzerText.Api, analyzerText.Public} : includes(ret.resource, word)

mfaRule ==
  \E word \in {analyzerText.Delete, analyzerText.Iam, analyzerText.Admin} :
    includes(toLowerCase(ret.action), word)

\* C20: generateConditions(action, resource) returns a map with the
\* DateGreaterThan entry iff the lowercased action contains "delete", "put" or
\* "create", with the IpAddress entry for 10.0.0.0/8, 172.16.0.0/12 and
\* 192.168.0.0/16 iff the resource contains "api" or "public", and with the
\* MFA-present entry iff the action contains "delete", "iam:" or "admin"; it
\* returns absent exactly when none of the three rules fires.
C20_ConditionRules ==
  pc = "returned" =>
    /\ entriesOf("DateGreaterThan") # {} <=> temporalRule
    /\ entriesOf("IpAddress") # {} <=> sourceIpRule
    /\ \A i \in entriesOf("IpAddress") :
         ret.conditions[i].v = <<"10.0.0.0/8", "172.16.0.0/12", "192.168.0.0/16">>
    /\ entriesOf("Bool") # {} <=> mfaRule
    /\ \A i \in entriesOf("Bool") : ret.conditions[i].v = <<"true">>
    /\ \A i \in 1..Len(ret.conditions) : ret.conditions[i].k \in {"DateGreaterThan", "IpAddress", "Bool"}
    /\ ret.conditions = <<>> <=> ~(temporalRule \/ sourceIpRule \/ mfaRule)

\* an action logged as iam:CreateRole on a public resource got all three entries
C20_AllThreeRules ==
  /\ pc = "returned"
  /\ args.action = conditionsText.IamCreateRole
  /\ Len(ret.conditions) = 3
  /\ temporalRule /\ sourceIpRule /\ mfaRule

---------------------------------------------------------------------------
(* Claims about the extraction of the fields *)

\* the keys a field is read from, as the values a decoded message holds for them
keyChains(parsedMessage) ==
  [ action |-> <<prop(parsedMessage, logsText.JsonEventName),
                 prop(parsedMessage, logsText.JsonAction),
                 prop(parsedMessage, logsText.JsonOperation)>>,
    resource |-> <<prop(prop(prop(parsedMessage, logsText.JsonResources), logsText.JsonIndex0), logsText.JsonARN),
                   prop(parsedMessage, logsText.JsonResourceARN),
                   prop(parsedMessage, logsText.JsonResource),
                   prop(parsedMessage, logsText.JsonBucketName),
                   prop(parsedMessage, logsText.JsonKey)>>,
    principal |-> <<prop(prop(parsedMessage, logsText.JsonUserIdentity), logsText.JsonArn),
                    prop(prop(parsedMessage, logsText.JsonUserIdentity), logsText.JsonUserName),
                    prop(parsedMessage, logsText.JsonPrincipal),
                    prop(parsedMessage, logsText.JsonUser)>>,
    errorCode |-> <<prop(parsedMessage, logsText.JsonErrorCode),
                    prop(parsedMessage, logsText.JsonErrorMessage),
                    prop(parsedMessage, logsText.JsonError)>> ]

\* what the text extractors make of a raw message
textFields(rawMessage) ==
  [ action |-> extractActionFromText(rawMessage),
    resource |-> extractResourceFromText(rawMessage),
    principal |-> extractPrincipalFromText(rawMessage),
    errorCode |-> extractErrorCodeFromText(rawMessage) ]

\* the chains and the extracted texts tabulated over the records of the model
fieldSources ==
  [event \in ParseEvents |->
     [chains |-> keyChains(event.message.json), texts |-> textFields(event.message.raw)]]

fieldNames == {"action", "resource", "principal", "errorCode"}

\* the records of the call that decode as JSON and gave a denial
decodedDenials ==
  {i \in 1..Len(args.events) : ret[i].kind = "denial" /\ args.events[i].message.json # <<>>}

\* the value of the first key of the chain that satisfies `counts`, or what
\* the text extractor gives, or "Unknown"
RECURSIVE firstOf(_, _, _)
firstOf(chain, counts, text) ==
  IF chain = <<>> THEN (IF text # <<>> THEN Str(text) ELSE Str(logsText.Unknown))
  ELSE IF counts[1] THEN Head(chain)[1]
  ELSE firstOf(Tail(chain), Tail(counts), text)

\* C21 as stated: when the raw message decodes as JSON, each field takes the
\* value of the first present key of its chain, and falls through to the text
\* extractor and then to "Unknown" only when every key of the chain is absent.
C21_FirstPresentKeyWins ==
  pc # "parse" =>
    \A i \in decodedDenials :
      \E chains \in {fieldSources[args.events[i]].chains} :
      \E texts \in {fieldSources[args.events[i]].texts} :
        \A f \in fieldNames :
          ret[i].denial[f] =
            firstOf(chains[f], [k \in 1..Len(chains[f]) |-> chains[f][k] # <<>>], texts[f])

\* C21: when the raw message decodes as JSON, each field takes the value of
\* the first key of its chain whose value is truthy (a key holding the empty
\* string or 0 is passed over like an absent key), and falls through to the
\* text extractor and then to "Unknown" when no key of the chain is truthy.
C21_FirstTruthyKeyWins ==
  pc # "parse" =>
    \A i \in decodedDenials :
      \E chains \in {fieldSources[args.events[i]].chains} :
      \E texts \in {fieldSources[args.events[i]].texts} :
        \A f \in fieldNames :
          ret[i].denial[f] =
            firstOf(chains[f], [k \in 1..Len(chains[f]) |-> truthy(chains[f][k])], texts[f])

\* a record whose eventName is the empty string got its action from the
\* action key, and a record with none of the keys got it from the raw text
C21_EmptyEventNamePassedOver ==
  /\ pc # "parse"
  /\ Len(args.events) = 2
  /\ decodedDenials = {1, 2}
  /\ prop(args.events[1].message.json, logsText.JsonEventName) = <<Str(<<>>)>>
  /\ ret[1].denial.action = Str(eventText.GetObject)
  /\ \A k \in 1..3 : keyChains(args.events[2].message.json).action[k] = <<>>
  /\ ret[2].denial.action.s # logsText.Unknown

\* every pattern of every field matched against the raw message of every
\* record of the model: <<>> or the match with its first group
patternMatches ==
  [event \in ParseEvents |->
     [action |-> [p \in 1..Len(actionPatterns) |-> match(event.message.raw, actionPatterns[p])],
      resource |-> [p \in 1..Len(resourcePatterns) |-> match(event.message.raw, resourcePatterns[p])],
      principal |-> [p \in 1..Len(principalPatterns) |-> match(event.message.raw, principalPatterns[p])],
      errorCode |-> [p \in 1..Len(errorPatterns) |-> match(event.message.raw, errorPatterns[p])]]]

\* the first pattern of the list that matches, 0 when none does
firstMatching(matches) ==
  IF \A p \in 1..Len(matches) : matches[p] = <<>> THEN 0
  ELSE CHOOSE p \in 1..Len(matches) : matches[p] # <<>> /\ \A q \in 1..(p - 1) : matches[q] = <<>>

\* the value the matches of a field give: the first group of the first
\* pattern that matches, `otherwise` when no pattern matches
captured(matches, otherwise) ==
  CHOOSE value \in
    {IF p = 0 THEN otherwise ELSE matches[p][1].group1 : p \in {firstMatching(matches)}} : TRUE

\* "on table X" and "table X" are the fifth and the sixth resource pattern;
\* their result is prefixed with "table " if it does not start with it
tableRule(matches) ==
  CHOOSE value \in
    {IF firstMatching(matches) \in {5, 6} /\ ~startsWith(capture, logsText.TableSpace)
     THEN logsText.TableSpace \o capture ELSE capture :
     capture \in {captured(matches, logsText.Unknown)}} : TRUE

\* the message loosely holds "not authorized" or "access denied"
impliesAccessDenied(rawMessage) ==
  \/ includes(toLowerCase(rawMessage), toLowerCase(logsText.NotAuthorized))
  \/ includes(toLowerCase(rawMessage), toLowerCase(logsText.AccessDeniedWords))

\* the records of the call that do not decode as JSON and gave a denial
textDenials ==
  {i \in 1..Len(args.events) : ret[i].kind = "denial" /\ args.events[i].message.json = <<>>}

\* C22: in the text fallback the patterns of a field are tried in their listed
\* order and the first pattern that matches determines the value, a field no
\* pattern resolves being "Unknown" and never blank; the message "User:
\* <iam-arn> is not authorized to perform: s3:GetObject on resource:
\* <s3-arn>" parses to that action, that resource, that principal ARN and
\* the errorCode AccessDenied.
C22_FirstMatchingPatternWins ==
  pc # "parse" =>
    \A i \in textDenials :
      \E matches \in {patternMatches[args.events[i]]} :
      \E denial \in {ret[i].denial} :
        /\ denial.action = Str(captured(matches.action, logsText.Unknown))
        /\ denial.resource = Str(tableRule(matches.resource))
        /\ denial.principal = Str(captured(matches.principal, logsText.Unknown))
        /\ denial.errorCode =
             Str(captured(matches.errorCode,
                          IF impliesAccessDenied(args.events[i].message.raw)
                          THEN logsText.AccessDenied ELSE logsText.Unknown))
        /\ \A f \in fieldNames : denial[f].s # <<>>
        /\ args.events[i].message.raw = eventText.NotAuthorizedS3 =>
             /\ denial.action.s = <<"s", "3", ":">> \o eventText.GetObject
             /\ denial.resource.s = eventText.BucketArn
             /\ denial.principal.s = logsText.ArnAwsIam \o <<"1", ":">> \o logsText.RoleSlash \o <<"r">>
             /\ denial.errorCode.s = logsText.AccessDenied

\* the not-authorized message was parsed, two action patterns matching it with
\* different captures, next to a message that resolves no field
C22_CompetingPatternsAndUnknown ==
  /\ pc # "parse"
  /\ textDenials = {1, 2}
  /\ args.events[1].message.raw = eventText.NotAuthorizedS3
  /\ \E p, q \in 1..Len(actionPatterns) :
       /\ p < q
       /\ patternMatches[args.events[1]].action[p] # <<>>
       /\ patternMatches[args.events[1]].action[q] # <<>>
       /\ patternMatches[args.events[1]].action[p][1].group1 # patternMatches[args.events[1]].action[q][1].group1
  /\ \A f \in fieldNames : ret[2].denial[f] = Str(logsText.Unknown)

---------------------------------------------------------------------------
(* Claims about the order of the results of analyzeLogGroups *)

\* a is b with some of its entries left out
RECURSIVE isSubsequence(_, _)
isSubsequence(a, b) ==
  IF a = <<>> THEN TRUE
  ELSE IF b = <<>> THEN FALSE
  ELSE IF Head(a) = Head(b) THEN isSubsequence(Tail(a), Tail(b))
  ELSE isSubsequence(a, Tail(b))

resultNames == [i \in 1..Len(results) |-> results[i].logGroupName]

\* the places of the input whose log group exists and whose analysis raised
\* no error that left analyzeLogGroups' try block
analysedPlaces ==
  {i \in 1..Len(logGroupNames) :
     /\ isValidLogGroupName(logGroupNames[i])
     /\ cloudwatch[logGroupNames[i]].describe = "exists"
     /\ \A j \in 1..Len(errorLog) :
          errorLog[j].at = "analyze" => errorLog[j].logGroup # logGroupNames[i]}

\* C23: analyzeLogGroups processes the log groups one at a time in input
\* order and its results keep that order: the logGroupName values of the
\* results are a subsequence of the input names, holding each analysed log
\* group once per occurrence in the input and nothing else.
C23_ResultsInInputOrder ==
  /\ isSubsequence(validLogGroups, logGroupNames)
  /\ Len(results) < vi
  /\ isSubsequence(resultNames, SubSeq(validLogGroups, 1, vi - 1))
  /\ isSubsequence(resultNames, logGroupNames)
  /\ pc = "returned" =>
       \A name \in {logGroupNames[i] : i \in 1..Len(logGroupNames)} :
         Cardinality({i \in 1..Len(results) : resultNames[i] = name})
           = Cardinality({i \in analysedPlaces : logGroupNames[i] = name})

\* a returned call whose input lists one log group twice, analysed at both places
C23_RepeatedLogGroupAnalysedTwice ==
  /\ pc = "returned"
  /\ Len(logGroupNames) = 2
  /\ logGroupNames[1] = logGroupNames[2]
  /\ resultNames = logGroupNames

---------------------------------------------------------------------------
(* Claims about analyzeStack *)

\* the pattern is a regular expression and it matches somewhere in the log group
matchesPattern(p, logGroup) == p.regex # <<>> /\ test(p.regex[1], logGroup)

\* the log group matches an include pattern, if there is any, and no exclude pattern
selectedByPatterns(logGroup) ==
  /\ \/ args.config.includePatterns = <<>>
     \/ \E i \in 1..Len(args.config.includePatterns) : matchesPattern(args.config.includePatterns[i], logGroup)
  /\ \A i \in 1..Len(args.config.excludePatterns) : ~matchesPattern(args.config.excludePatterns[i], logGroup)

passedToAnalyzeLogGroups(logGroup) ==
  pc = "called" /\ \E i \in 1..Len(logGroupNames) : logGroupNames[i] = logGroup

stackLogGroupResources ==
  {args.stackResources[i].physicalId[1] :
     i \in {j \in 1..Len(args.stackResources) :
              /\ args.stackResources[j].resourceType = stackText.LogGroupType
              /\ args.stackResources[j].physicalId # <<>>}}

collected(logGroup) == \E i \in 1..Len(allLogGroups) : allLogGroups[i] = logGroup

\* C25: once analyzeStack has collected the log groups of the stack, the log
\* group of every AWS::Logs::LogGroup resource of the stack is in the set it
\* collects for analysis
C25_ExplicitLogGroupsCollected ==
  pc \in {"discover", "external", "cloudTrail", "filter", "called", "threw"} =>
    \A logGroup \in stackLogGroupResources : collected(logGroup)

---------------------------------------------------------------------------
(* Claims about the statements of generateIAMPolicy *)

\* the permissions the loop has merged into entry k of the Map
mergedInto(k) ==
  {i \in 1..(pi - 1) :
     ~isExcluded(args.permissions[i]) /\ statementKey(args.permissions[i]) = statementMap[k].key}

\* C26: every entry of the Map of statements, and every statement of the
\* returned policy made of it, lists exactly one resource, and every
\* permission merged into it has that resource.
C26_OneResourcePerStatement ==
  /\ \A k \in 1..Len(statementMap) :
       /\ Len(statementMap[k].resources) = 1
       /\ mergedInto(k) # {}
       /\ \A i \in mergedInto(k) : args.permissions[i].resource = statementMap[k].resources[1]
  /\ pc = "returned" =>
       /\ Len(ret.Statement) = Len(statementMap)
       /\ \A k \in 1..Len(statementMap) : ret.Statement[k].Resource = statementMap[k].resources

\* a policy returned for two retained permissions of one condition and
\* different resources, in two statements
C26_OneConditionTwoResources ==
  /\ pc = "returned"
  /\ Len(ret.Statement) = 2
  /\ \E i, j \in retainedPermissions :
       /\ args.permissions[i].resource # args.permissions[j].resource
       /\ conditionKey(args.permissions[i]) = conditionKey(args.permissions[j])
       /\ args.permissions[i].condition # <<>>

\* the Condition of the statement that grants permission i: its condition,
\* or none when it has no condition or an empty one
grantedCondition(i) ==
  IF args.permissions[i].condition # <<>> /\ args.permissions[i].condition[1].c # <<>>
  THEN args.permissions[i].condition ELSE <<>>

\* C27: for every permission of the input that generateIAMPolicy does not
\* filter out, the returned policy has a statement whose Action list has the
\* action of the permission, whose Resource list has its resource, and whose
\* Condition is its condition, or is absent when the permission has no
\* condition or an empty one.
C27_RetainedPermissionsCovered ==
  pc = "returned" =>
    \A i \in retainedPermissions :
      \E k \in 1..Len(ret.Statement) :
        /\ args.permissions[i].action \in elementsOf(ret.Statement[k].Action)
        /\ args.permissions[i].resource \in elementsOf(ret.Statement[k].Resource)
        /\ ret.Statement[k].Condition = grantedCondition(i)

\* a policy returned for two retained permissions of one resource, one with
\* a condition and one with an empty condition
C27_ConditionalNextToUnconditional ==
  /\ pc = "returned"
  /\ \E i, j \in retainedPermissions :
       /\ args.permissions[i].resource = args.permissions[j].resource
       /\ grantedCondition(i) # <<>>
       /\ args.permissions[j].condition = <<Obj(<<>>)>>

---------------------------------------------------------------------------
(* Claims about generateIAMPolicy and generateCDKCode together *)

\* the policy grants permission i: a statement lists its action and its resource
grantedInPolicy(i) == statementsListing(i) # {}

\* the code grants permission i: a policy statement of the role of its
\* service lists its action and its resource as optimizeResourceArn writes it
grantedInCode(i) ==
  \E k \in 1..Len(cdkStatements) :
    /\ cdkStatements[k].service = serviceOf(args.permissions[i].action)
    /\ args.permissions[i].action \in elementsOf(cdkStatements[k].actions)
    /\ optimizeResourceArn(args.permissions[i].resource) \in elementsOf(cdkStatements[k].resources)

\* C28: for every list of permissions, a permission is granted by the policy
\* of generateIAMPolicy if and only if it is granted by the code of
\* generateCDKCode
C28_SamePermissionsRetained ==
  pc = "generated" =>
    \A i \in 1..Len(args.permissions) : grantedInPolicy(i) <=> grantedInCode(i)

---------------------------------------------------------------------------
(* StackAnalyzerService: generateIAMPolicy on the suggestions of analyzeLogs *)

\* string literals of the conditions, and the denials of one bucket
groupingText ==
  [ DateGreaterThan |-> <<"D","a","t","e","G","r","e","a","t","e","r","T","h","a","n">>,
    CurrentTime |-> <<"a","w","s",":","C","u","r","r","e","n","t","T","i","m","e">>,
    IpAddress |-> <<"I","p","A","d","d","r","e","s","s">>,
    SourceIp |-> <<"a","w","s",":","S","o","u","r","c","e","I","p">>,
    PrivateA |-> <<"1","0",".","0",".","0",".","0","/","8">>,
    PrivateB |-> <<"1","7","2",".","1","6",".","0",".","0","/","1","2">>,
    PrivateC |-> <<"1","9","2",".","1","6","8",".","0",".","0","/","1","6">>,
    S3PutObject |-> <<"s","3",":","P","u","t","O","b","j","e","c","t">>,
    S3CreateBucket |-> <<"s","3",":","C","r","e","a","t","e","B","u","c","k","e","t">>,
    S3GetObject |-> <<"s","3",":","G","e","t","O","b","j","e","c","t">>,
    Bucket |-> <<"a","r","n",":","a","w","s",":","s","3",":",":",":","b","1">> ]

MaxGroupingDenials == 3

\* the condition of a suggestion as the object JSON.stringify is given
conditionObject(entries) ==
  Obj([i \in 1..Len(entries) |->
         CASE entries[i].k = "DateGreaterThan" ->
                member(groupingText.DateGreaterThan, Obj(<<member(groupingText.CurrentTime, Str(entries[i].v))>>))
           [] entries[i].k = "IpAddress" ->
                member(groupingText.IpAddress,
                       Obj(<<member(groupingText.SourceIp,
                                    Arr(<<member(<<"0">>, Str(groupingText.PrivateA)),
                                          member(<<"1">>, Str(groupingText.PrivateB)),
                                          member(<<"2">>, Str(groupingText.PrivateC))>>))>>))
           [] entries[i].k = "Bool" ->
                member(policyText.Bool, Obj(<<member(policyText.MultiFactorAuthPresent, Str(policyText.True))>>))])

\* a suggestion of analyzeLogs as generateIAMPolicy reads it: the condition
\* is absent when generateConditions returned undefined
asPermission(suggestion) ==
  [action |-> suggestion.action,
   resource |-> suggestion.resource,
   effect |-> suggestion.effect,
   condition |-> IF suggestion.hasCondition THEN <<conditionObject(suggestion.condition)>> ELSE <<>>,
   frequency |-> suggestion.frequency,
   severity |-> suggestion.severity]

\* generateIAMPolicy(result.suggestedPermissions): the call on the
\* suggestions analyzeLogs returned
StartPolicy ==
  /\ pc = "done"
  /\ args' = [permissions |-> [i \in 1..Len(suggestions) |-> asPermission(suggestions[i])]]
  /\ pc' = "policy"
  /\ UNCHANGED <<analyzerVars, ret, logsVars, policyVars, stackVars>>

\* denials of three actions on one bucket, two of them with the time rule
GroupingDenials ==
  { denialOf(Str(action), Str(groupingText.Bucket), Str(analyzerText.AccessDenied)) :
    action \in {groupingText.S3PutObject, groupingText.S3CreateBucket, groupingText.S3GetObject} }

InitGrouping ==
  /\ \E n \in 0..MaxGroupingDenials :
       logAnalysisResults \in {resultsOf(<<list>>) : list \in seqsOfLen(GroupingDenials, n)}
  /\ permissionMap = <<>>
  /\ ri = skipEmpty(logAnalysisResults, 1)
  /\ di = 1
  /\ pc = "aggregate"
  /\ suggestions = <<>>
  /\ clock = 0
  /\ args = "none"
  /\ ret = "none"
  /\ noLogGroups
  /\ noPolicy
  /\ noStack

NextGrouping ==
  \/ ProcessDenial
  \/ ConvertAndSort
  \/ StartPolicy
  \/ AddPermission
  \/ ReturnPolicy

SpecGrouping == InitGrouping /\ [][NextGrouping]_vars

---------------------------------------------------------------------------
(* Claims about the grouping of the suggestions of one run *)

\* the condition rules a permission triggers: the entries generateConditions
\* makes for it, the time left aside
triggeredRules(permission) ==
  LET entries == generateConditions(permission.action, permission.resource, 0)
  IN {entries[i].k : i \in 1..Len(entries)}

\* C29: two suggestions of one run of analyzeLogs that have the same
\* resource and trigger the same condition rules are listed by one statement
\* of the policy generateIAMPolicy returns for the suggestions, whatever the
\* clock did between the generation of their conditions
C29_SameRulesSameStatement ==
  pc = "returned" =>
    \A i, j \in 1..Len(args.permissions) :
      (/\ args.permissions[i].resource = args.permissions[j].resource
       /\ triggeredRules(args.permissions[i]) = triggeredRules(args.permissions[j]))
      => \E k \in 1..Len(ret.Statement) :
           /\ args.permissions[i].action \in elementsOf(ret.Statement[k].Action)
           /\ args.permissions[j].action \in elementsOf(ret.Statement[k].Action)
           /\ args.permissions[i].resource \in elementsOf(ret.Statement[k].Resource)

---------------------------------------------------------------------------
(* Claims about the severity of the records parsePermissionDenial decodes *)

\* the denials parsePermissionDenial made of the records, in their order
handedDenials == logAnalysisResults[1].permissionDenials

\* the record spells the error name AccessDenied, in whatever letter case
spellsAccessDenied(denial) ==
  includes(toLowerCase(denial.message), toLowerCase(analyzerText.AccessDenied))

\* the action of the denial is lambda:InvokeFunction, a dynamodb: action or s3:GetObject
coreAction(denial) ==
  /\ denial.action.t = "str"
  /\ \/ includes(toLowerCase(denial.action.s), analyzerText.LambdaInvokeFunction)
     \/ includes(toLowerCase(denial.action.s), analyzerText.Dynamodb)
     \/ includes(toLowerCase(denial.action.s), analyzerText.S3GetObject)

\* denial d is the first of its key among the denials handed to analyzeLogs
firstOfItsKey(d) ==
  \A e \in 1..(d - 1) :
    handedDenials[e].action.t # "str" \/ handedDenials[e].resource.t # "str"
    \/ permissionKey(normalizeAction(handedDenials[e].action.s), normalizeResource(handedDenials[e].resource.s))
         # permissionKey(normalizeAction(handedDenials[d].action.s), normalizeResource(handedDenials[d].resource.s))

\* C30: when parsePermissionDenial and then analyzeLogs have run, every
\* record that spells the error name AccessDenied in some letter case, whose
\* action is lambda:InvokeFunction, a dynamodb: action or s3:GetObject, and
\* that is the first of its key, has its suggestion rated Critical.
C30_AccessDeniedRatedCritical ==
  (pc = "done" /\ Len(logAnalysisResults) = 1) =>
    \A d \in 1..Len(handedDenials) :
      (/\ spellsAccessDenied(handedDenials[d])
       /\ coreAction(handedDenials[d])
       /\ handedDenials[d].resource.t = "str"
       /\ firstOfItsKey(d))
      => \E s \in 1..Len(suggestions) :
           /\ suggestions[s].action = normalizeAction(handedDenials[d].action.s)
           /\ suggestions[s].resource = normalizeResource(handedDenials[d].resource.s)
           /\ suggestions[s].severity = "Critical"

====
